---------------------------- MODULE Spec2Model ----------------------------
(***************************************************************************)
(* Model of resume2site's LLM generation pipeline (app/generator_llm.py):  *)
(* the plan generator, the HTML synthesis / validation / repair loop, the  *)
(* incremental user-edit call, and the two content-addressed caches.       *)
(*                                                                         *)
(* Text is modelled as a sequence of tokens.  A token is either one of the *)
(* literal markers the code searches for ("IS_RESUME: TRUE", "PLAN:",      *)
(* "<!DOCTYPE html>", ...), a whitespace token, or an opaque piece of      *)
(* content.  str.strip / split / find / rfind / in are modelled on these   *)
(* sequences.                                                              *)
(***************************************************************************)
EXTENDS Integers, Sequences, FiniteSets, TLC

(***************************************************************************)
(* Bounds of the model.                                                    *)
(***************************************************************************)
MaxCalls == 3          \* top-level calls made by the caller in one run

(***************************************************************************)
(* Program constants.                                                      *)
(***************************************************************************)
MAX_FIX_ATTEMPTS == 2

\* Python's None, and the placeholder strings of _generate_website_plan.
None == <<"<None>">>
PLAN_NOT_FOUND == <<"Plan details not found in expected format in cache.">>
REASON_NOT_FOUND_CACHE == <<"Reason not found in expected format in cache.">>
REASON_NOT_FOUND == <<"Could not determine reason for invalid resume (output format unexpected).">>

(***************************************************************************)
(* String primitives on token sequences.                                   *)
(***************************************************************************)
SetMin(S) == CHOOSE x \in S : \A y \in S : x <= y
SetMax(S) == CHOOSE x \in S : \A y \in S : x >= y

\* Tokens str.strip() removes: blank, newline.
IsSpace(t) == t \in {" ", "NL"}

\* s.strip()
Strip(s) ==
    LET keep == {i \in 1..Len(s) : ~IsSpace(s[i])}
    IN  IF keep = {} THEN <<>> ELSE SubSeq(s, SetMin(keep), SetMax(keep))

\* sub in s
Contains(s, sub) == \E i \in 1..Len(s) : s[i] = sub

\* s.find(sub): index of the first occurrence (1-based), 0 when absent
Find(s, sub) ==
    IF Contains(s, sub) THEN SetMin({i \in 1..Len(s) : s[i] = sub}) ELSE 0

\* s.rfind(sub): index of the last occurrence (1-based), 0 when absent
RFind(s, sub) ==
    IF Contains(s, sub) THEN SetMax({i \in 1..Len(s) : s[i] = sub}) ELSE 0

\* s.split(sep, 1)[0]
SplitHead(s, sep) ==
    IF Contains(s, sep) THEN SubSeq(s, 1, Find(s, sep) - 1) ELSE s

\* s.split(sep, 1)[1]   (only evaluated when sep in s)
SplitTail(s, sep) == SubSeq(s, Find(s, sep) + 1, Len(s))

\* bool(x) of an optional string: None and "" are falsy
Truthy(x) == x # None /\ x # <<>>

\* utils._sha: SHA-256 of the text, modelled as an injective digest
sha(text) == <<"sha256">> \o text

(***************************************************************************)
(* Inputs.                                                                  *)
(***************************************************************************)
\* Resume texts handed to the pipeline.
Texts == { <<"cv-A">>, <<"cv-B">> }

\* Replies the model may give to the plan prompt.  "NL" is a newline; the
\* token "\\n" (backslash + n, the separator line 389 splits on) occurs in
\* none of them, as in a reply with real line breaks.
PlanReplies ==
    { <<"IS_RESUME: TRUE", "NL", "PLAN:", "NL", "sections">>,
      <<"IS_RESUME: TRUE", "NL", "sections">>,
      <<"IS_RESUME: TRUE", "NL", "PLAN:", "NL">>,
      <<"IS_RESUME: FALSE", "NL", "REASON:", " ", "no work history found">>,
      <<"IS_RESUME: FALSE", "NL", "Explanation:", "cover letter">>,
      <<>> }

(***************************************************************************)
(* _generate_website_plan: parsing of the reply.                           *)
(***************************************************************************)
\* is_resume = "IS_RESUME: TRUE" in content.split("\\n", 1)[0]
IsResumeLine(content) == SplitHead(content, "\\n")
IsResume(content) == Contains(IsResumeLine(content), "IS_RESUME: TRUE")

\* Variant: a cached refusal always comes back with the placeholder reason.
ParseCached_ForgetsReason(cached_content) ==
    IF IsResume(cached_content)
    THEN << IF Contains(cached_content, "PLAN:")
               THEN Strip(SplitTail(cached_content, "PLAN:"))
               ELSE PLAN_NOT_FOUND,
            TRUE, None >>
    ELSE << None, FALSE, REASON_NOT_FOUND_CACHE >>

\* Cache-hit parse of the cached blob: (plan, is_resume, reason)
ParseCached(cached_content) ==
    IF IsResume(cached_content)
    THEN << IF Contains(cached_content, "PLAN:")
               THEN Strip(SplitTail(cached_content, "PLAN:"))
               ELSE PLAN_NOT_FOUND,
            TRUE, None >>
    ELSE << None, FALSE,
            IF Contains(cached_content, "REASON:")
               THEN Strip(SplitTail(cached_content, "REASON:"))
               ELSE REASON_NOT_FOUND_CACHE >>

\* Cache-miss parse of plan_output (the stripped reply)
ParseFresh(plan_output) ==
    IF IsResume(plan_output)
    THEN << Strip(plan_output), TRUE, None >>
    ELSE << None, FALSE,
            IF Contains(plan_output, "REASON:")
               THEN Strip(SplitTail(plan_output, "REASON:"))
               ELSE REASON_NOT_FOUND >>


(***************************************************************************)
(* _extract_html and _validate_html_css.                                   *)
(***************************************************************************)
\* Replies the model may give to an HTML prompt (generation, repair, edit).
HtmlReplies ==
    { <<"commentary", "<!DOCTYPE html>", "<body>ok</body>", "</html>", "NL">>,
      <<"<!DOCTYPE html>", "<body>v2</body>", "</HTML>">>,
      <<"<!DOCTYPE html>", "<p>unclosed", "</html>">>,
      <<"[fence]html", "NL", "<!doctype html>", "<style>bad</style>", "NL", "[fence]">>,
      <<" ", "NL">>,
      <<>> }

\* str.lower() on the tokens whose case matters
LowerTok(t) ==
    CASE t = "<!DOCTYPE html>" -> "<!doctype html>"
      [] t = "</HTML>" -> "</html>"
      [] OTHER -> t

\* The lower-case form of one piece of text.  "I-dot" is the letter U+0130
\* (capital I with dot above), whose lower-case form is two characters
\* long; every other piece keeps its length.
LowerOf(t) == IF t = "I-dot" THEN <<"i", "dot above">> ELSE <<LowerTok(t)>>

\* str.lower()
RECURSIVE Lower(_)
Lower(s) == IF s = << >> THEN << >> ELSE LowerOf(Head(s)) \o Lower(Tail(s))

\* stripped[7:-3] / stripped[3:-3]: the text between the opening fence
\* ("[fence]html" or "[fence]", three backticks) and the closing fence
Unfence(stripped) == SubSeq(stripped, 2, Len(stripped) - 1)

extract_html(raw_html_output) ==
    LET doctype_start == Find(Lower(raw_html_output), "<!doctype html>")
        html_end == RFind(Lower(raw_html_output), "</html>")
        stripped_output == Strip(raw_html_output)
    IN  IF doctype_start # 0 /\ html_end # 0 /\ doctype_start < html_end
        THEN SubSeq(raw_html_output, doctype_start,
                    IF html_end < Len(raw_html_output) THEN html_end
                    ELSE Len(raw_html_output))
        ELSE IF /\ stripped_output # <<>>
                /\ Head(stripped_output) = "[fence]html"
                /\ stripped_output[Len(stripped_output)] = "[fence]"
        THEN Strip(Unfence(stripped_output))
        ELSE IF /\ stripped_output # <<>>
                /\ Head(stripped_output) \in {"[fence]", "[fence]html"}
                /\ stripped_output[Len(stripped_output)] = "[fence]"
        THEN Strip(Unfence(stripped_output))
        ELSE stripped_output

\* html5lib strict parse: the first parse error is raised and recorded as one
\* error string.  A document without a leading doctype, or holding malformed
\* markup, has a parse error.
HtmlParseErrors(html_content) ==
    IF \/ html_content = <<>>
       \/ LowerTok(Head(html_content)) # "<!doctype html>"
       \/ Contains(html_content, "<p>unclosed")
    THEN << "HTML ParseError" >>
    ELSE << >>

\* cssutils log records captured for every <style> block
CssErrors(html_content) ==
    SelectSeq([i \in 1..Len(html_content) |->
                  IF html_content[i] = "<style>bad</style>"
                  THEN "CSS Error in <style> tag" ELSE ""],
              LAMBDA e : e # "")

validate_html_css(html_content) ==
    HtmlParseErrors(html_content) \o CssErrors(html_content)

(***************************************************************************)
(* The caches: .cache/plans/<sha>.txt and .cache/html/<sha>.html            *)
(***************************************************************************)
plan_cache_path(raw_text_) == sha(raw_text_)

\* Variant: the key of the plan stage, which leaves the plan out.
html_cache_key_content_TextOnly(raw_text_, website_plan_) == raw_text_

\* Line 477
html_cache_key_content(raw_text_, website_plan_) ==
    raw_text_ \o <<"||PLAN||">> \o website_plan_

html_cache_path(raw_text_, website_plan_) ==
    sha(html_cache_key_content(raw_text_, website_plan_))

\* path.exists()
Exists(cache, path) == path \in DOMAIN cache

\* path.write_text(content): whole-file replacement
WriteText(cache, path, content) ==
    [p \in DOMAIN cache \cup {path} |-> IF p = path THEN content ELSE cache[p]]


(***************************************************************************)
(* State.                                                                   *)
(***************************************************************************)
VARIABLES
    planCache,      \* .cache/plans: path -> file content
    htmlCache,      \* .cache/html:  path -> file content
    pc,             \* position of the caller inside the running function
    op,             \* top-level function of the current / last call
    raw_text,       \* its resume text argument
    cb,             \* TRUE when a status_callback was passed
    arg_html,       \* apply_user_changes_llm: the current_html argument
    plan_output,    \* _generate_website_plan: stripped model reply
    plan_ret,       \* the triple _generate_website_plan returned
    website_plan,   \* generate_html_llm locals
    attempt,
    current_html,
    last_errors,
    messages,       \* the prompt last handed to chat()
    sink,           \* messages given to status_callback in this call
    result,         \* how the last call ended: return value or exception
    chats,          \* model invocations made by the current / last call
    nFix,           \* repair prompts built by the current / last call
    firstValid,     \* the document of attempt 0 had no validation errors
    rsp,            \* content of the last reply chat() returned
    exc,            \* exception chat() raised in this call, if any
    cacheOps,       \* cache accesses of this call, in order
    nCalls,         \* top-level calls started so far
    planFirst,      \* text -> triple of the first completed plan run
    genFirst,       \* text -> document of the first completed generation
    wasPlanDone,    \* a plan run for raw_text had completed when the call began
    wasGenDone,     \* a generation for raw_text had completed when the call began
    phase,          \* paired runs: "off", "first", "restored" or "second"
    tape,           \* paired runs: outcomes of the model calls of this run
    obs,            \* paired runs: model calls and cache accesses of this run
    saved,          \* paired runs: the initial caches and what the first run did
    fin,            \* a function under study: its arguments
    fout,           \* a function under study: its results, once computed
    callers,        \* concurrent generate_html_llm calls: caller -> its locals
    srv,            \* temp_server: the TempHTMLServer object and what it holds of the host
    prs,            \* parser_llm: the .cache directory and the calls made so far
    gui             \* gui: st.session_state and what the page shows of the last run

cacheVars == <<planCache, htmlCache>>
callVars  == <<op, raw_text, cb, arg_html, nCalls, wasPlanDone, wasGenDone>>
planVars  == <<plan_output, plan_ret>>
htmlVars  == <<website_plan, attempt, current_html, last_errors, nFix, firstValid>>
histVars  == <<planFirst, genFirst>>
pairVars  == <<phase, tape, obs, saved>>
moduleVars == <<srv, prs, gui>>
pureVars  == <<fin, fout, callers, moduleVars>>
vars == <<planCache, htmlCache, pc, op, raw_text, cb, arg_html, plan_output,
          plan_ret, website_plan, attempt, current_html, last_errors,
          messages, sink, result, chats, nFix, firstValid, rsp, exc, cacheOps,
          nCalls,
          planFirst, genFirst, wasPlanDone, wasGenDone, phase, tape, obs, saved,
          fin, fout, callers, srv, prs, gui>>

NoChats == [plan |-> 0, html |-> 0, apply |-> 0]
NoPrompt == [kind |-> "none", html |-> <<>>, errors |-> <<>>]
NoResult == [kind |-> "none", val |-> <<>>]
NoTriple == <<None, FALSE, None>>

Returned(v) == [kind |-> "return", val |-> v]
Raised(e)   == [kind |-> "raise", val |-> <<e>>]

\* An exception of chat(): the provider call fails, or the reply has no
\* content (rsp.message.content is None and the next string method raises).
ChatErrors == {"ProviderError", "AttributeError"}

\* status_callback(msg), when a callback was passed
Emit(snk, cbk, msg) == IF cbk THEN Append(snk, msg) ELSE snk

\* Documents a caller may hand to apply_user_changes_llm
CurrentDocs ==
    { <<"<!DOCTYPE html>", "<body>ok</body>", "</html>">>,
      <<"<!DOCTYPE html>", "<p>unclosed", "</html>">> }

\* What a paired comparison keeps of its first run.
NoSaved == [plan0 |-> << >>, html0 |-> << >>, tape |-> << >>, obs |-> << >>,
            result |-> NoResult, planAfter |-> << >>, htmlAfter |-> << >>]

\* No call has been made yet.
FreshCaller ==
    /\ pc = "idle"
    /\ op = "none"
    /\ raw_text = << >>
    /\ cb = FALSE
    /\ arg_html = << >>
    /\ plan_output = << >>
    /\ plan_ret = NoTriple
    /\ website_plan = None
    /\ attempt = 0
    /\ current_html = << >>
    /\ last_errors = << >>
    /\ messages = NoPrompt
    /\ sink = << >>
    /\ result = NoResult
    /\ chats = NoChats
    /\ nFix = 0
    /\ firstValid = FALSE
    /\ rsp = << >>
    /\ exc = << >>
    /\ cacheOps = << >>
    /\ nCalls = 0
    /\ planFirst = << >>
    /\ genFirst = << >>
    /\ wasPlanDone = FALSE
    /\ wasGenDone = FALSE
    /\ phase = "off"
    /\ tape = << >>
    /\ obs = << >>
    /\ saved = NoSaved

\* TempHTMLServer.__init__ (lines 14-19), on a host where it has bound no
\* socket, started no thread and made no directory.  0 stands for None.
\* log: the methods called so far; doc: the html_content of the last call;
\* swallowed: line 76 has swallowed an exception of shutil.rmtree.
NewServer ==
    [server |-> 0, server_thread |-> 0, temp_dir |-> 0, port |-> 0,
     is_running |-> FALSE,
     bound |-> {}, threads |-> {}, dirs |-> << >>, made |-> 0, ops |-> 0,
     ret |-> "none",
     log |-> << >>, doc |-> << >>, swallowed |-> FALSE]

\* parser_llm after import (line 27): an empty .cache directory, no call yet.
NewParser == [cache |-> << >>, calls |-> << >>]

\* gui.py lines 69-105: the session of a page just opened.  << >> stands for
\* "" and for None, 0 for a URL that is None.  label: the last label given
\* to the status box; log: the handlers run so far; held: the document the
\* session held when the last applied change request came in; apply_plan: the
\* website_plan argument of the last apply_user_changes_llm call.
NewSession ==
    [generated_html |-> << >>, display_html |-> FALSE, website_plan |-> << >>,
     temp_server_url |-> 0, pending_change_summary |-> << >>,
     original_html_backup |-> << >>, change_user_request |-> << >>,
     label |-> "none", log |-> << >>, held |-> << >>, apply_plan |-> << >>,
     emitted_plan |-> << >>, serve_raised |-> FALSE]

\* The other modules are as they are after import.
ModulesIdle == srv = NewServer /\ prs = NewParser /\ gui = NewSession

\* No function is under study.
NoStudy == fin = << >> /\ fout = << >> /\ callers = << >> /\ ModulesIdle

\* The process starts with both cache directories empty.
Init ==
    /\ planCache = << >>
    /\ htmlCache = << >>
    /\ FreshCaller
    /\ NoStudy

\* A model call ends with `outcome`.  In a paired comparison the first run
\* records the outcome and the second run is given the same outcomes in the
\* same order; both record the prompt that was sent.
ChatStep(outcome) ==
    /\ UNCHANGED <<cacheOps, phase, saved, pureVars>>
    /\ IF phase = "off"
       THEN UNCHANGED <<tape, obs>>
       ELSE /\ (phase = "second" /\ Len(tape) < Len(saved.tape))
                    => outcome = saved.tape[Len(tape) + 1]
            /\ tape' = Append(tape, outcome)
            /\ obs' = Append(obs, <<"chat", messages>>)

\* A cache access (exists, read_text, write_text) of the running call.
CacheStep(tag) ==
    /\ cacheOps' = Append(cacheOps, tag)
    /\ obs' = IF phase = "off" THEN obs ELSE Append(obs, <<tag>>)
    /\ UNCHANGED <<phase, tape, saved, pureVars>>

\* A new top-level call: fresh locals, counters and sink.
Begin(o, text, cbk, html) ==
    /\ pc = "idle"
    /\ nCalls < MaxCalls
    /\ nCalls' = nCalls + 1
    /\ op' = o
    /\ raw_text' = text
    /\ cb' = cbk
    /\ arg_html' = html
    /\ plan_output' = << >>
    /\ plan_ret' = NoTriple
    /\ website_plan' = None
    /\ attempt' = 0
    /\ current_html' = << >>
    /\ last_errors' = << >>
    /\ result' = NoResult
    /\ chats' = NoChats
    /\ nFix' = 0
    /\ firstValid' = FALSE
    /\ rsp' = << >>
    /\ exc' = << >>
    /\ cacheOps' = << >>
    /\ wasPlanDone' = (text \in DOMAIN planFirst)
    /\ wasGenDone' = (text \in DOMAIN genFirst)
    /\ UNCHANGED <<cacheVars, histVars>>

(***************************************************************************)
(* _generate_website_plan                                                   *)
(***************************************************************************)
Call_generate_website_plan(text, cbk) ==
    /\ Begin("plan", text, cbk, << >>)
    /\ pc' = "plan_check"
    /\ messages' = NoPrompt
    /\ sink' = << >>

\* Variant: the early returns sit inside the "if status_callback:" blocks.
GenerateGate_ReturnsOnlyWithSink(triple, cbk) ==
    IF ~triple[2] /\ cbk THEN "not_resume"
    ELSE IF ~Truthy(triple[1]) /\ cbk THEN "no_plan"
    ELSE "proceed"

\* Lines 455-467 of generate_html_llm: the two early returns.  Whether a
\* status_callback was passed does not enter the decision.
GenerateGate(triple, cbk) ==
    IF ~triple[2] THEN "not_resume"
    ELSE IF ~Truthy(triple[1]) THEN "no_plan"
    ELSE "proceed"

\* The triple is handed back: to the caller, or to generate_html_llm, which
\* goes on with lines 455-478.
PlanReturn(triple, snk) ==
    /\ plan_ret' = triple
    /\ planFirst' = IF raw_text \in DOMAIN planFirst THEN planFirst
                    ELSE WriteText(planFirst, raw_text, triple)
    /\ IF op = "plan"
       THEN /\ pc' = "idle"
            /\ result' = Returned(triple)
            /\ sink' = snk
            /\ UNCHANGED website_plan
       ELSE IF GenerateGate(triple, cb) = "not_resume"
       THEN /\ pc' = "idle"
            /\ result' = Returned(<< >>)
            /\ sink' = Emit(snk, cb, <<"The provided text does not appear to be a valid resume. Reason: ">> \o triple[3])
            /\ UNCHANGED website_plan
       ELSE IF GenerateGate(triple, cb) = "no_plan"
       THEN /\ pc' = "idle"
            /\ result' = Returned(<< >>)
            /\ sink' = Emit(snk, cb, <<"Failed to generate a website plan, even though input was considered a resume.">>)
            /\ UNCHANGED website_plan
       ELSE /\ pc' = "html_check"
            /\ website_plan' = triple[1]
            /\ sink' = Emit(Emit(snk, cb, <<"Website Plan: ">> \o triple[1]), cb,
                            <<"Now generating Website based on this plan...">>)
            /\ UNCHANGED result

PlanCheck ==
    /\ pc = "plan_check"
    /\ CacheStep("plan.exists")
    /\ IF Exists(planCache, plan_cache_path(raw_text))
       THEN /\ pc' = "plan_read"
            /\ sink' = Emit(sink, cb, <<"Found cached website plan.">>)
            /\ UNCHANGED messages
       ELSE /\ pc' = "plan_chat"
            /\ sink' = Emit(sink, cb, <<"Analyzing resume and generating website plan...">>)
            /\ messages' = [kind |-> "plan", html |-> << >>, errors |-> << >>]
    /\ UNCHANGED <<cacheVars, callVars, planVars, htmlVars, histVars, result,
                   chats, rsp, exc>>

PlanRead ==
    /\ pc = "plan_read"
    /\ CacheStep("plan.read")
    /\ PlanReturn(ParseCached(planCache[plan_cache_path(raw_text)]), sink)
    /\ UNCHANGED <<cacheVars, callVars, plan_output, attempt, current_html,
                   last_errors, nFix, firstValid, genFirst, messages, chats, rsp, exc>>

PlanChatReturns(content) ==
    /\ pc = "plan_chat"
    /\ ChatStep(<<"return", content>>)
    /\ chats' = [chats EXCEPT !.plan = @ + 1]
    /\ rsp' = content
    /\ plan_output' = Strip(content)
    /\ pc' = "plan_write"
    /\ UNCHANGED <<cacheVars, callVars, plan_ret, htmlVars, histVars, messages,
                   sink, result, exc>>

PlanChatRaises(e) ==
    /\ pc = "plan_chat"
    /\ ChatStep(<<"raise", <<e>>>>)
    /\ chats' = [chats EXCEPT !.plan = @ + 1]
    /\ pc' = "idle"
    /\ result' = Raised(e)
    /\ exc' = <<e>>
    /\ UNCHANGED <<cacheVars, callVars, planVars, htmlVars, histVars, messages,
                   sink, rsp>>

\* Variant: the reply is parsed but never saved.
PlanCacheWrite_Skipped(cache, path, content) == cache

\* Line 418: plan_cache_path.write_text(plan_output)
PlanCacheWrite(cache, path, content) == WriteText(cache, path, content)

\* Lines 418-437: the raw output is saved, then parsed.
PlanWrite ==
    /\ pc = "plan_write"
    /\ CacheStep("plan.write")
    /\ planCache' = PlanCacheWrite(planCache, plan_cache_path(raw_text), plan_output)
    /\ LET triple == ParseFresh(plan_output)
       IN  PlanReturn(triple,
                      IF triple[2]
                      THEN Emit(sink, cb, <<"Plan generated successfully.">>)
                      ELSE Emit(sink, cb, <<"Not a valid resume. Reason: ">> \o triple[3]))
    /\ UNCHANGED <<htmlCache, callVars, plan_output, attempt, current_html,
                   last_errors, nFix, firstValid, genFirst, messages, chats, rsp, exc>>


(***************************************************************************)
(* generate_html_llm                                                        *)
(***************************************************************************)
\* Line 453: the plan stage runs first.
Call_generate_html_llm(text, cbk) ==
    /\ Begin("generate", text, cbk, << >>)
    /\ pc' = "plan_check"
    /\ messages' = NoPrompt
    /\ sink' = << >>

\* Variant: the loop runs one attempt too many.
LastAttempt_OneMore == MAX_FIX_ATTEMPTS + 1

\* Lines 489 and 559: range(_MAX_FIX_ATTEMPTS + 1) ends with this attempt
LastAttempt == MAX_FIX_ATTEMPTS

\* Variant: the validity test never lets a document through.
IsValid_Never(validation_errors) == FALSE

\* Line 540: if not validation_errors
IsValid(validation_errors) == validation_errors = << >>

\* Lines 490-510: the generation prompt of attempt 0
GenerationPrompt == [kind |-> "generate", html |-> << >>, errors |-> << >>]

\* Variant: the errors of the attempts before are carried along.
FixPrompt_KeepsOldErrors(previous_html, errors) ==
    [kind |-> "fix", html |-> previous_html, errors |-> last_errors \o errors]

\* Lines 511-530: the repair prompt, from current_html and last_errors
FixPrompt(previous_html, errors) ==
    [kind |-> "fix", html |-> previous_html, errors |-> errors]

\* Lines 480-510: cache check; on a miss the loop starts with attempt 0.
HtmlCheck ==
    /\ pc = "html_check"
    /\ CacheStep("html.exists")
    /\ IF Exists(htmlCache, html_cache_path(raw_text, website_plan))
       THEN /\ pc' = "html_read"
            /\ sink' = Emit(sink, cb, <<"Found cached Website (post-plan).">>)
            /\ UNCHANGED <<messages, attempt, current_html, last_errors>>
       ELSE /\ pc' = "html_chat"
            /\ current_html' = << >>
            /\ last_errors' = << >>
            /\ attempt' = 0
            /\ sink' = Emit(sink, cb, <<"Attempt", ToString(1), "Calling LLM for initial Website generation (using plan)...">>)
            /\ messages' = GenerationPrompt
    /\ UNCHANGED <<cacheVars, callVars, planVars, website_plan, nFix, firstValid,
                   histVars, result, chats, rsp, exc>>

\* The document goes back to the caller of generate_html_llm.
GenReturn(doc) ==
    /\ pc' = "idle"
    /\ result' = Returned(doc)
    /\ genFirst' = IF raw_text \in DOMAIN genFirst THEN genFirst
                   ELSE WriteText(genFirst, raw_text, doc)

\* Line 483
HtmlRead ==
    /\ pc = "html_read"
    /\ CacheStep("html.read")
    /\ GenReturn(htmlCache[html_cache_path(raw_text, website_plan)])
    /\ UNCHANGED <<cacheVars, callVars, planVars, htmlVars, planFirst, messages,
                   sink, chats, rsp, exc>>

\* Lines 532-568: one attempt gets its reply, which is extracted and
\* validated; the loop then ends or builds the next repair prompt.
HtmlChatReturns(raw_output) ==
    /\ pc = "html_chat"
    /\ ChatStep(<<"return", raw_output>>)
    /\ chats' = [chats EXCEPT !.html = @ + 1]
    /\ rsp' = raw_output
    /\ firstValid' = IF attempt = 0
                     THEN validate_html_css(extract_html(raw_output)) = << >>
                     ELSE firstValid
    /\ LET html == extract_html(raw_output)
           validation_errors == validate_html_css(html)
           snk1 == Emit(sink, cb, <<"Validating generated Website (HTML/CSS)...">>)
           snk2 == Emit(snk1, cb, <<"Validation failed", ToString(attempt + 1),
                                    "Errors:", ToString(Len(validation_errors))>>)
       IN  /\ current_html' = html
           /\ IF IsValid(validation_errors)
              THEN /\ pc' = "html_write"
                   /\ sink' = Emit(Emit(snk1, cb, <<"Website (HTML/CSS) validation passed!">>),
                                    cb, <<"Caching final website version.">>)
                   /\ UNCHANGED <<last_errors, attempt, messages, nFix>>
              ELSE /\ last_errors' = validation_errors
                   /\ IF attempt = LastAttempt
                      THEN /\ pc' = "html_write_last"
                           /\ sink' = Emit(snk2, cb, <<"Failed to generate valid Website after", ToString(attempt + 1),
                                                       "attempts due to HTML/CSS errors. Returning last generated version.">>)
                           /\ UNCHANGED <<attempt, messages, nFix>>
                      ELSE /\ pc' = "html_chat"
                           /\ attempt' = attempt + 1
                           /\ sink' = Emit(snk2, cb, <<"Attempt", ToString(attempt + 2), "Trying to fix Website. Errors:",
                                                       ToString(Len(validation_errors))>>)
                           /\ messages' = FixPrompt(html, validation_errors)
                           /\ nFix' = nFix + 1
    /\ UNCHANGED <<cacheVars, callVars, planVars, website_plan, histVars, result,
                   exc>>

\* Variant: the document of the attempt before is saved when the call fails.
HtmlChatRaises_SavesLastDocument(e) ==
    /\ pc = "html_chat"
    /\ ChatStep(<<"raise", <<e>>>>)
    /\ chats' = [chats EXCEPT !.html = @ + 1]
    /\ pc' = "idle"
    /\ result' = Raised(e)
    /\ exc' = <<e>>
    /\ htmlCache' = IF attempt >= 1
                    THEN WriteText(htmlCache, html_cache_path(raw_text, website_plan),
                                   current_html)
                    ELSE htmlCache
    /\ UNCHANGED <<planCache, callVars, planVars, htmlVars, histVars, messages,
                   sink, rsp>>

\* Line 532 raising: no handler in generate_html_llm, the call ends there.
HtmlChatRaises(e) ==
    /\ pc = "html_chat"
    /\ ChatStep(<<"raise", <<e>>>>)
    /\ chats' = [chats EXCEPT !.html = @ + 1]
    /\ pc' = "idle"
    /\ result' = Raised(e)
    /\ exc' = <<e>>
    /\ UNCHANGED <<cacheVars, callVars, planVars, htmlVars, histVars, messages,
                   sink, rsp>>

\* Variant: the exhausted attempt is returned without being cached.
CacheLastAttempt_Skipped(cache, path, html) == cache

\* Lines 565-567: cache the last attempt anyway
CacheLastAttempt(cache, path, html) == WriteText(cache, path, html)

\* Line 572: cache the valid document
CacheFinal(cache, path, html) == WriteText(cache, path, html)

\* Lines 565-568 (last attempt still invalid) and 572-573 (valid document).
\* After the break of line 545 the function goes straight to line 570: it
\* holds no quality-heuristics or tweak step and makes no further model call.
HtmlWrite ==
    /\ pc \in {"html_write", "html_write_last"}
    /\ CacheStep("html.write")
    /\ htmlCache' =
          IF pc = "html_write_last"
          THEN CacheLastAttempt(htmlCache, html_cache_path(raw_text, website_plan),
                                current_html)
          ELSE CacheFinal(htmlCache, html_cache_path(raw_text, website_plan),
                          current_html)
    /\ GenReturn(current_html)
    /\ UNCHANGED <<planCache, callVars, planVars, htmlVars, planFirst, messages,
                   sink, chats, rsp, exc>>

(***************************************************************************)
(* apply_user_changes_llm                                                   *)
(***************************************************************************)
\* Lines 597-615
Call_apply_user_changes_llm(html, cbk) ==
    /\ Begin("apply", << >>, cbk, html)
    /\ pc' = "apply_chat"
    /\ messages' = [kind |-> "changes", html |-> html, errors |-> << >>]
    /\ sink' = Emit(Emit(<< >>, cbk, <<"Processing your change request...">>),
                    cbk, <<"Calling LLM to apply changes...">>)

\* Variant: an invalid modification is rejected in favour of the original.
ApplyResult_RejectInvalid(modified_html, validation_errors, original_html) ==
    IF validation_errors = << >> THEN modified_html ELSE original_html

\* Line 637: the modified document is returned whatever validation said
ApplyResult(modified_html, validation_errors, original_html) == modified_html

\* Variant: no try/except around the model call.
ApplyOnError_Propagates(original_html, e) == Raised(e)

\* Lines 639-644: except Exception: return current_html
ApplyOnError(original_html, e) == Returned(original_html)

\* Lines 618-637
\* Variant: the modified document is also saved in the HTML cache.
ApplyChatReturns_CachesResult(raw_output) ==
    /\ pc = "apply_chat"
    /\ ChatStep(<<"return", raw_output>>)
    /\ chats' = [chats EXCEPT !.apply = @ + 1]
    /\ rsp' = raw_output
    /\ sink' = sink
    /\ result' = Returned(extract_html(raw_output))
    /\ htmlCache' = WriteText(htmlCache, html_cache_path(arg_html, << >>),
                              extract_html(raw_output))
    /\ pc' = "idle"
    /\ UNCHANGED <<planCache, callVars, planVars, htmlVars, histVars, messages, exc>>

\* Lines 617-637: the reply is extracted, validated and returned
ApplyChatReturns(raw_output) ==
    /\ pc = "apply_chat"
    /\ ChatStep(<<"return", raw_output>>)
    /\ chats' = [chats EXCEPT !.apply = @ + 1]
    /\ rsp' = raw_output
    /\ LET modified_html == extract_html(raw_output)
           validation_errors == validate_html_css(modified_html)
           snk1 == Emit(sink, cb, <<"Validating modified website...">>)
       IN  /\ sink' = IF validation_errors # << >>
                      THEN Emit(snk1, cb, <<"Validation found", ToString(Len(validation_errors)),
                                            "issues, but applying changes anyway.">>)
                      ELSE Emit(snk1, cb, <<"Modified website validation passed!">>)
           /\ result' = Returned(ApplyResult(modified_html, validation_errors, arg_html))
    /\ pc' = "idle"
    /\ UNCHANGED <<cacheVars, callVars, planVars, htmlVars, histVars, messages, exc>>

\* Lines 639-644: except Exception
ApplyChatRaises(e) ==
    /\ pc = "apply_chat"
    /\ ChatStep(<<"raise", <<e>>>>)
    /\ chats' = [chats EXCEPT !.apply = @ + 1]
    /\ sink' = Emit(sink, cb, <<"Error applying changes: ", e>>)
    /\ result' = ApplyOnError(arg_html, e)
    /\ exc' = <<e>>
    /\ pc' = "idle"
    /\ UNCHANGED <<cacheVars, callVars, planVars, htmlVars, histVars, messages, rsp>>

(***************************************************************************)
(* Specification.                                                           *)
(***************************************************************************)
Next ==
    \/ /\ \E text \in Texts, cbk \in BOOLEAN : Call_generate_website_plan(text, cbk)
       /\ UNCHANGED <<pairVars, pureVars>>
    \/ /\ \E text \in Texts, cbk \in BOOLEAN : Call_generate_html_llm(text, cbk)
       /\ UNCHANGED <<pairVars, pureVars>>
    \/ /\ \E html \in CurrentDocs, cbk \in BOOLEAN : Call_apply_user_changes_llm(html, cbk)
       /\ UNCHANGED <<pairVars, pureVars>>
    \/ PlanCheck
    \/ PlanRead
    \/ \E content \in PlanReplies : PlanChatReturns(content)
    \/ \E e \in ChatErrors : PlanChatRaises(e)
    \/ PlanWrite
    \/ HtmlCheck
    \/ HtmlRead
    \/ \E raw_output \in HtmlReplies : HtmlChatReturns(raw_output)
    \/ \E e \in ChatErrors : HtmlChatRaises(e)
    \/ HtmlWrite
    \/ \E raw_output \in HtmlReplies : ApplyChatReturns(raw_output)
    \/ \E e \in ChatErrors : ApplyChatRaises(e)

Spec == Init /\ [][Next]_vars

\* The synthesis loop keeps running: a pending model call ends (it returns
\* or it raises) and the caller goes on to its cache write.
LoopProgress ==
    \/ \E raw_output \in HtmlReplies : HtmlChatReturns(raw_output)
    \/ \E e \in ChatErrors : HtmlChatRaises(e)
    \/ HtmlWrite

\* A caller that keeps generating the website of one resume, under that
\* fairness.
GenNext ==
    \/ /\ \E cbk \in BOOLEAN : Call_generate_html_llm(<<"cv-A">>, cbk)
       /\ UNCHANGED <<pairVars, pureVars>>
    \/ PlanCheck
    \/ PlanRead
    \/ \E content \in PlanReplies : PlanChatReturns(content)
    \/ \E e \in ChatErrors : PlanChatRaises(e)
    \/ PlanWrite
    \/ HtmlCheck
    \/ HtmlRead
    \/ LoopProgress

FairSpec == Init /\ [][GenNext]_vars /\ WF_vars(LoopProgress)

(***************************************************************************)
(* Paired runs: the same call is made twice from the same cache contents   *)
(* and with the same model outcomes, first with a status_callback and then *)
(* without one.                                                            *)
(***************************************************************************)
\* Cache contents earlier calls for the text "cv-A" leave behind: nothing,
\* a plan, a plan and its website, a refusal.
WarmCaches ==
    LET planA == plan_cache_path(<<"cv-A">>)
        good == <<"IS_RESUME: TRUE", "NL", "PLAN:", "NL", "sections">>
        refused == <<"IS_RESUME: FALSE", "NL", "REASON:", " ", "no work history found">>
        site == <<"<!DOCTYPE html>", "<body>ok</body>", "</html>">>
    IN  { [plan |-> << >>, html |-> << >>],
          [plan |-> WriteText(<< >>, planA, good), html |-> << >>],
          [plan |-> WriteText(<< >>, planA, good),
           html |-> WriteText(<< >>, html_cache_path(<<"cv-A">>, <<"sections">>), site)],
          [plan |-> WriteText(<< >>, planA, refused), html |-> << >>] }

PairInit ==
    /\ \E w \in WarmCaches : planCache = w.plan /\ htmlCache = w.html
    /\ FreshCaller
    /\ NoStudy

\* The call under comparison
PairCall(o, html, cbk) ==
    CASE o = "plan" -> Call_generate_website_plan(<<"cv-A">>, cbk)
      [] o = "generate" -> Call_generate_html_llm(<<"cv-A">>, cbk)
      [] o = "apply" -> Call_apply_user_changes_llm(html, cbk)

\* First run: with a status_callback.
PairStart ==
    /\ phase = "off"
    /\ \E o \in {"plan", "generate"} : PairCall(o, << >>, TRUE)
    /\ phase' = "first"
    /\ saved' = [NoSaved EXCEPT !.plan0 = planCache, !.html0 = htmlCache]
    /\ UNCHANGED <<tape, obs, pureVars>>

PairStartApply ==
    /\ phase = "off"
    /\ \E html \in CurrentDocs : PairCall("apply", html, TRUE)
    /\ phase' = "first"
    /\ saved' = [NoSaved EXCEPT !.plan0 = planCache, !.html0 = htmlCache]
    /\ UNCHANGED <<tape, obs, pureVars>>

\* The first run is over: what it did is kept and the caches are put back to
\* their initial contents.
PairRestore ==
    /\ phase = "first"
    /\ pc = "idle"
    /\ phase' = "restored"
    /\ saved' = [saved EXCEPT !.tape = tape, !.obs = obs, !.result = result,
                              !.planAfter = planCache, !.htmlAfter = htmlCache]
    /\ planCache' = saved.plan0
    /\ htmlCache' = saved.html0
    /\ tape' = << >>
    /\ obs' = << >>
    /\ UNCHANGED <<pc, callVars, planVars, htmlVars, histVars, messages, sink,
                   result, chats, rsp, exc, cacheOps, pureVars>>

\* Second run: the same call without a status_callback.
PairSecond ==
    /\ phase = "restored"
    /\ PairCall(op, arg_html, FALSE)
    /\ phase' = "second"
    /\ UNCHANGED <<tape, obs, saved, pureVars>>

PairNext ==
    \/ PairStart
    \/ PairStartApply
    \/ PairRestore
    \/ PairSecond
    \/ PlanCheck
    \/ PlanRead
    \/ \E content \in PlanReplies : PlanChatReturns(content)
    \/ \E e \in ChatErrors : PlanChatRaises(e)
    \/ PlanWrite
    \/ HtmlCheck
    \/ HtmlRead
    \/ \E raw_output \in HtmlReplies : HtmlChatReturns(raw_output)
    \/ \E e \in ChatErrors : HtmlChatRaises(e)
    \/ HtmlWrite
    \/ \E raw_output \in HtmlReplies : ApplyChatReturns(raw_output)
    \/ \E e \in ChatErrors : ApplyChatRaises(e)

PairSpec == PairInit /\ [][PairNext]_vars

(***************************************************************************)
(* The HTML cache key as a function of (raw_text, website_plan).           *)
(***************************************************************************)
KeyMaxLen == 2

\* Texts of up to KeyMaxLen pieces; a piece is ordinary text or the
\* characters "||PLAN||", which a resume or a model reply may contain.
KeyTexts ==
    UNION { [1..n -> {"a", "||PLAN||"}] : n \in 0..KeyMaxLen }

\* Line 477 is reached with a non-empty plan only (line 463).
KeyInputs == [raw_text : KeyTexts, website_plan : KeyTexts \ {<< >>}]

\* Two calls reach line 477 with these arguments.
KeyInit ==
    /\ planCache = << >>
    /\ htmlCache = << >>
    /\ FreshCaller
    /\ fin \in KeyInputs \X KeyInputs
    /\ fout = << >>
    /\ callers = << >>
    /\ ModulesIdle

\* Lines 477-478 for both calls
ComputeKeys ==
    /\ fout = << >>
    /\ fout' = [i \in 1..2 |-> html_cache_path(fin[i].raw_text, fin[i].website_plan)]
    /\ UNCHANGED <<cacheVars, pc, callVars, planVars, htmlVars, histVars, messages,
                   sink, result, chats, rsp, exc, cacheOps, pairVars, fin, callers,
                   moduleVars>>

KeySpec == KeyInit /\ [][ComputeKeys]_vars

(***************************************************************************)
(* The parse of a plan reply as a function of the reply.                   *)
(***************************************************************************)
ParseMaxLen == 3

\* Pieces a reply to the plan prompt is made of.  "NL" is a line break and
\* "\\n" the two characters backslash and n.
ReplyPieces ==
    {"IS_RESUME: TRUE", "IS_RESUME: FALSE", "NL", "PLAN:", "REASON:", "x", "\\n"}

ParseReplies == UNION { [1..n -> ReplyPieces] : n \in 0..ParseMaxLen }

\* rsp.message.content of line 414
ParseInit ==
    /\ planCache = << >>
    /\ htmlCache = << >>
    /\ FreshCaller
    /\ fin \in ParseReplies
    /\ fout = << >>
    /\ callers = << >>
    /\ ModulesIdle

\* Lines 415-437: the call that got the reply parses plan_output.
ParseOnMiss ==
    /\ fout = << >>
    /\ fout' = <<"miss", ParseFresh(Strip(fin))>>
    /\ UNCHANGED <<cacheVars, pc, callVars, planVars, htmlVars, histVars, messages,
                   sink, result, chats, rsp, exc, cacheOps, pairVars, fin, callers,
                   moduleVars>>

\* Lines 387-405: a later call parses the file line 418 wrote.
ParseOnHit ==
    /\ fout = << >>
    /\ fout' = <<"hit", ParseCached(PlanCacheWrite(<< >>, "f", Strip(fin))["f"])>>
    /\ UNCHANGED <<cacheVars, pc, callVars, planVars, htmlVars, histVars, messages,
                   sink, result, chats, rsp, exc, cacheOps, pairVars, fin, callers,
                   moduleVars>>

ParseSpec == ParseInit /\ [][ParseOnMiss \/ ParseOnHit]_vars

(***************************************************************************)
(* _extract_html on its own.                                               *)
(***************************************************************************)
ExtractMaxLen == 4

\* Pieces a reply to the generation prompt is made of.
HtmlPieces ==
    {"commentary", "<!DOCTYPE html>", "</html>", "[fence]html", "[fence]", "NL",
     "I-dot"}

ExtractInputs == UNION { [1..n -> HtmlPieces] : n \in 0..ExtractMaxLen }

\* rsp.message.content of line 533
ExtractInit ==
    /\ planCache = << >>
    /\ htmlCache = << >>
    /\ FreshCaller
    /\ fin \in ExtractInputs
    /\ fout = << >>
    /\ callers = << >>
    /\ ModulesIdle

\* Line 534: current_html = _extract_html(raw_output)
Call_extract_html ==
    /\ fout = << >>
    /\ fout' = <<extract_html(fin)>>
    /\ UNCHANGED <<cacheVars, pc, callVars, planVars, htmlVars, histVars, messages,
                   sink, result, chats, rsp, exc, cacheOps, pairVars, fin, callers,
                   moduleVars>>

ExtractSpec == ExtractInit /\ [][Call_extract_html]_vars

(***************************************************************************)
(* Concurrent calls of generate_html_llm on one cache directory, from the  *)
(* cache check of line 480 on.  Each caller has its own locals; the files  *)
(* are shared and nothing locks them.                                      *)
(***************************************************************************)
Callers == {"c1", "c2"}

\* Plans the plan stage may have handed to a caller for the text "cv-A"
ConcPlans == { <<"sections">>, <<"skills">> }

NewCaller ==
    [pc |-> "start", website_plan |-> None, attempt |-> 0, current_html |-> << >>,
     result |-> NoResult, hit |-> FALSE]

ConcInit ==
    /\ planCache = << >>
    /\ htmlCache = << >>
    /\ FreshCaller
    /\ fin = << >>
    /\ fout = << >>
    /\ callers = [c \in Callers |-> NewCaller]
    /\ ModulesIdle

ConcPath(c) == html_cache_path(<<"cv-A">>, callers[c].website_plan)

ConcFrame ==
    UNCHANGED <<planCache, pc, callVars, planVars, htmlVars, histVars, messages,
                sink, result, chats, rsp, exc, cacheOps, pairVars, fin, fout,
                moduleVars>>

\* Lines 453-478: the plan stage has returned a plan.
Conc_Enter(c, plan) ==
    /\ callers[c].pc = "start"
    /\ callers' = [callers EXCEPT ![c].pc = "html_check", ![c].website_plan = plan]
    /\ UNCHANGED htmlCache
    /\ ConcFrame

\* Line 480: cache_path.exists()
Conc_HtmlCheck(c) ==
    /\ callers[c].pc = "html_check"
    /\ callers' = [callers EXCEPT ![c].pc =
                       IF Exists(htmlCache, ConcPath(c)) THEN "html_read" ELSE "html_chat"]
    /\ UNCHANGED htmlCache
    /\ ConcFrame

\* Line 483
Conc_HtmlRead(c) ==
    /\ callers[c].pc = "html_read"
    /\ callers' = [callers EXCEPT ![c].pc = "done", ![c].hit = TRUE,
                                  ![c].result = Returned(htmlCache[ConcPath(c)])]
    /\ UNCHANGED htmlCache
    /\ ConcFrame

\* Lines 532-568: one attempt
Conc_HtmlChatReturns(c, raw_output) ==
    /\ callers[c].pc = "html_chat"
    /\ LET html == extract_html(raw_output)
           validation_errors == validate_html_css(html)
       IN  callers' = [callers EXCEPT
               ![c].current_html = html,
               ![c].pc = IF IsValid(validation_errors) THEN "html_write"
                         ELSE IF callers[c].attempt = LastAttempt THEN "html_write_last"
                         ELSE "html_chat",
               ![c].attempt = IF ~IsValid(validation_errors) /\ callers[c].attempt # LastAttempt
                              THEN @ + 1 ELSE @]
    /\ UNCHANGED htmlCache
    /\ ConcFrame

\* Line 532 raises
Conc_HtmlChatRaises(c, e) ==
    /\ callers[c].pc = "html_chat"
    /\ callers' = [callers EXCEPT ![c].pc = "done", ![c].result = Raised(e)]
    /\ UNCHANGED htmlCache
    /\ ConcFrame

\* Lines 565-568 and 572-573
Conc_HtmlWrite(c) ==
    /\ callers[c].pc \in {"html_write", "html_write_last"}
    /\ htmlCache' =
          IF callers[c].pc = "html_write_last"
          THEN CacheLastAttempt(htmlCache, ConcPath(c), callers[c].current_html)
          ELSE CacheFinal(htmlCache, ConcPath(c), callers[c].current_html)
    /\ callers' = [callers EXCEPT ![c].pc = "done",
                                  ![c].result = Returned(callers[c].current_html)]
    /\ ConcFrame

ConcNext ==
    \E c \in Callers :
        \/ \E plan \in ConcPlans : Conc_Enter(c, plan)
        \/ Conc_HtmlCheck(c)
        \/ Conc_HtmlRead(c)
        \/ \E raw_output \in HtmlReplies : Conc_HtmlChatReturns(c, raw_output)
        \/ \E e \in ChatErrors : Conc_HtmlChatRaises(c, e)
        \/ Conc_HtmlWrite(c)

ConcSpec == ConcInit /\ [][ConcNext]_vars

(***************************************************************************)
(* The same callers with the file system's view of a cache write.          *)
(* path.write_text(data) is open(path, "w"), which creates or truncates the *)
(* file, then write and close: between the two the file exists and is      *)
(* empty.  (A write that reaches the disk in several pieces is left out.)   *)
(***************************************************************************)
\* Lines 567 and 572, first half: the file is created or truncated.
Race_HtmlOpen(c) ==
    /\ callers[c].pc \in {"html_write", "html_write_last"}
    /\ htmlCache' = WriteText(htmlCache, ConcPath(c), << >>)
    /\ callers' = [callers EXCEPT ![c].pc = "html_writing"]
    /\ ConcFrame

\* Lines 567-568 and 572-573, second half: the content is written, the file
\* closed and the document returned.
Race_HtmlClose(c) ==
    /\ callers[c].pc = "html_writing"
    /\ htmlCache' = WriteText(htmlCache, ConcPath(c), callers[c].current_html)
    /\ callers' = [callers EXCEPT ![c].pc = "done",
                                  ![c].result = Returned(callers[c].current_html)]
    /\ ConcFrame

RaceNext ==
    \E c \in Callers :
        \/ \E plan \in ConcPlans : Conc_Enter(c, plan)
        \/ Conc_HtmlCheck(c)
        \/ Conc_HtmlRead(c)
        \/ \E raw_output \in HtmlReplies : Conc_HtmlChatReturns(c, raw_output)
        \/ \E e \in ChatErrors : Conc_HtmlChatRaises(c, e)
        \/ Race_HtmlOpen(c)
        \/ Race_HtmlClose(c)

RaceSpec == ConcInit /\ [][RaceNext]_vars

(***************************************************************************)
(* temp_server.TempHTMLServer: one object, called by one thread.           *)
(* srv holds the object's fields and, of the host, the sockets it has      *)
(* bound (instance, port), the threads it has running, and the temporary   *)
(* directories it has made with the content of the file in each.           *)
(***************************************************************************)
MaxServerOps == 4

\* Ports the host may hand out at line 39
Ports == {8001, 8002}

\* Documents given to the server
ServedDocs == { <<"<html>v1</html>">>, <<"<html>v2</html>">> }

\* Variant: a running server is left alone.
StopsFirst_Never(is_running) == FALSE

\* Line 28: if self.is_running: self.stop_server()
StopsFirst(is_running) == is_running

\* Variant: only the flag is reset.
stop_server_OnlyFlag(s, rmtree_ok) == [s EXCEPT !.is_running = FALSE]

\* Lines 57-80.  shutdown() ends serve_forever, so the serving thread ends;
\* server_close() releases the socket.  rmtree_ok = FALSE: shutil.rmtree
\* raised and line 76 swallowed it.
stop_server(s, rmtree_ok) ==
    LET s1 == IF s.server # 0
              THEN [s EXCEPT !.bound = {b \in @ : b.id # s.server},
                             !.threads = @ \ {s.server},
                             !.server = 0]
              ELSE s
        s2 == IF s1.server_thread # 0 THEN [s1 EXCEPT !.server_thread = 0] ELSE s1
        s3 == IF s2.temp_dir # 0 /\ s2.temp_dir \in DOMAIN s2.dirs
              THEN [s2 EXCEPT !.dirs = IF rmtree_ok
                                       THEN [d \in DOMAIN @ \ {s2.temp_dir} |-> @[d]]
                                       ELSE @,
                              !.swallowed = @ \/ ~rmtree_ok,
                              !.temp_dir = 0]
              ELSE s2
    IN  [s3 EXCEPT !.is_running = FALSE]

\* Lines 21-55.  The instance, its thread and its directory take the next
\* number.  bind_ok = FALSE: HTTPServer(...) of line 47 raised, the port
\* having been taken since line 39 found it free.
start_server(s, html_content, port, rmtree_ok, bind_ok) ==
    LET s0 == IF StopsFirst(s.is_running) THEN stop_server(s, rmtree_ok) ELSE s
        n  == s0.made + 1
        s1 == [s0 EXCEPT !.made = n,
                         !.temp_dir = n,
                         !.dirs = WriteText(@, n, html_content),
                         !.port = port]
    IN  IF bind_ok
        THEN [s1 EXCEPT !.server = n,
                        !.bound = @ \cup {[id |-> n, port |-> port]},
                        !.server_thread = n,
                        !.threads = @ \cup {n},
                        !.is_running = TRUE,
                        !.ret = "url"]
        ELSE [s1 EXCEPT !.ret = "raise"]

\* Variant: the server is always started anew.
update_content_Restarts(s, html_content, port, rmtree_ok, bind_ok) ==
    start_server(s, html_content, port, rmtree_ok, bind_ok)

\* Lines 82-96
update_content(s, html_content, port, rmtree_ok, bind_ok) ==
    IF ~s.is_running \/ s.temp_dir = 0
    THEN start_server(s, html_content, port, rmtree_ok, bind_ok)
    ELSE [s EXCEPT !.dirs = WriteText(@, s.temp_dir, html_content), !.ret = "url"]

\* Lines 98-100
is_server_running(s) == s.is_running /\ s.server # 0

\* Lines 102-106: the URL, named by its port, or None
get_current_url(s) == IF is_server_running(s) THEN s.port ELSE 0

\* Lines 162-168
get_server_status(s) ==
    [is_running |-> is_server_running(s),
     url |-> get_current_url(s),
     port |-> IF s.is_running THEN s.port ELSE 0]

\* Ports free when line 39 asks for one
FreePorts(s) == Ports \ {b.port : b \in s.bound}

ServerFrame ==
    UNCHANGED <<cacheVars, pc, callVars, planVars, htmlVars, histVars, messages,
                sink, result, chats, rsp, exc, cacheOps, pairVars, fin, fout,
                callers, prs, gui>>

Call_start_server ==
    /\ srv.ops < MaxServerOps
    /\ \E html \in ServedDocs, rmtree_ok \in BOOLEAN, bind_ok \in BOOLEAN :
         LET s0 == IF StopsFirst(srv.is_running) THEN stop_server(srv, rmtree_ok) ELSE srv
         IN  \E port \in FreePorts(s0) :
               srv' = [start_server(srv, html, port, rmtree_ok, bind_ok)
                           EXCEPT !.ops = srv.ops + 1,
                                  !.log = Append(@, "start_server"), !.doc = html]
    /\ ServerFrame

Call_stop_server ==
    /\ srv.ops < MaxServerOps
    /\ \E rmtree_ok \in BOOLEAN :
         srv' = [stop_server(srv, rmtree_ok)
                     EXCEPT !.ops = srv.ops + 1, !.ret = "none",
                            !.log = Append(@, "stop_server"), !.doc = << >>]
    /\ ServerFrame

Call_update_content ==
    /\ srv.ops < MaxServerOps
    /\ \E html \in ServedDocs, rmtree_ok \in BOOLEAN, bind_ok \in BOOLEAN :
         \E port \in FreePorts(srv) :
               srv' = [update_content(srv, html, port, rmtree_ok, bind_ok)
                           EXCEPT !.ops = srv.ops + 1,
                                  !.log = Append(@, "update_content"), !.doc = html]
    /\ ServerFrame

ServerNext == Call_start_server \/ Call_stop_server \/ Call_update_content

ServerSpec == Init /\ [][ServerNext]_vars

(***************************************************************************)
(* cleaner.py.  Here a string is the sequence of its characters.           *)
(***************************************************************************)
LowerLetters == <<"a", "b", "c", "d", "e", "f", "g", "h", "i", "j", "k", "l", "m", "n", "o", "p", "q", "r", "s", "t", "u", "v", "w", "x", "y", "z">>
UpperLetters == <<"A", "B", "C", "D", "E", "F", "G", "H", "I", "J", "K", "L", "M", "N", "O", "P", "Q", "R", "S", "T", "U", "V", "W", "X", "Y", "Z">>
DigitChars == {"0", "1", "2", "3", "4", "5", "6", "7", "8", "9"}

IsLowerCh(c) == \E i \in 1..Len(LowerLetters) : LowerLetters[i] = c
IsUpperCh(c) == \E i \in 1..Len(UpperLetters) : UpperLetters[i] = c

\* str.lower()
LowerCh(c) ==
    IF IsUpperCh(c)
    THEN LowerLetters[CHOOSE i \in 1..Len(UpperLetters) : UpperLetters[i] = c]
    ELSE c
LowerStr(s) == [i \in 1..Len(s) |-> LowerCh(s[i])]

\* _CAMEL.sub(" ", s): a blank goes between a lower-case letter and the
\* upper-case letter that follows it (line 8).
RECURSIVE CamelSub(_)
CamelSub(s) ==
    IF Len(s) < 2 THEN s
    ELSE IF IsLowerCh(s[1]) /\ IsUpperCh(s[2])
         THEN <<s[1], " ">> \o CamelSub(Tail(s))
         ELSE <<s[1]>> \o CamelSub(Tail(s))

\* Lines 12-13
decamel(s) == Strip(CamelSub(s))

\* _DIGITS.sub("", raw) (lines 9, 19)
IsDigitCh(c) == c \in DigitChars
DigitsOf(raw) == SelectSeq(raw, IsDigitCh)

\* "+48 " + " ".join of three groups of three digits
Plus48(d9) ==
    <<"+", "4", "8", " ">> \o SubSeq(d9, 1, 3) \o <<" ">> \o SubSeq(d9, 4, 6)
        \o <<" ">> \o SubSeq(d9, 7, 9)

\* Variant: the country code is kept among the nine digits.
normalise_phone_KeepsPrefix(raw) ==
    LET digits == DigitsOf(raw)
    IN  IF Len(digits) >= 11 /\ SubSeq(digits, 1, 2) = <<"4", "8">>
        THEN Plus48(SubSeq(digits, 1, 9))
        ELSE IF Len(digits) = 9 THEN Plus48(digits)
        ELSE raw

\* Lines 18-24
normalise_phone(raw) ==
    LET digits == DigitsOf(raw)
    IN  IF Len(digits) >= 11 /\ SubSeq(digits, 1, 2) = <<"4", "8">>
        THEN Plus48(SubSeq(digits, 3, 11))
        ELSE IF Len(digits) = 9 THEN Plus48(digits)
        ELSE raw

\* Phone numbers as people write them: an optional country prefix, a run of
\* MinPhoneDigits..MaxPhoneDigits digits, bare or grouped by blanks or dashes.
MinPhoneDigits == 7
MaxPhoneDigits == 10

PhoneDigitRun == <<"6", "0", "0", "7", "0", "0", "8", "0", "0", "9", "1", "2">>

PhonePrefixes == { << >>, <<"+">>, <<"4", "8">>, <<"+", "4", "8", " ">>, <<"0", "0", "4", "8">>, <<"(", "4", "8", ")", " ">> }

\* The digits in groups of three joined by sep
RECURSIVE Grouped(_, _)
Grouped(d, sep) ==
    IF Len(d) <= 3 THEN d
    ELSE SubSeq(d, 1, 3) \o sep \o Grouped(SubSeq(d, 4, Len(d)), sep)

PhoneInputs ==
    { pre \o Grouped(SubSeq(PhoneDigitRun, 1, n), sep) :
        pre \in PhonePrefixes, n \in MinPhoneDigits..MaxPhoneDigits,
        sep \in { << >>, <<" ">>, <<"-">> } }

PhoneInit ==
    /\ planCache = << >>
    /\ htmlCache = << >>
    /\ FreshCaller
    /\ fin \in PhoneInputs
    /\ fout = << >>
    /\ callers = << >>
    /\ ModulesIdle

PureFrame ==
    UNCHANGED <<cacheVars, pc, callVars, planVars, htmlVars, histVars, messages,
                sink, result, chats, rsp, exc, cacheOps, pairVars, fin, callers,
                moduleVars>>

Call_normalise_phone ==
    /\ fout = << >>
    /\ fout' = <<normalise_phone(fin)>>
    /\ PureFrame

PhoneSpec == PhoneInit /\ [][Call_normalise_phone]_vars

(***************************************************************************)
(* cleaner.clean_resume.  A dict is a function on its keys, a list a       *)
(* sequence.  A project given as a bare string s is the dict               *)
(* ("<str>" :> s); a contact that is None is the dict ("<None>" :> TRUE).  *)
(***************************************************************************)
SKILL_MAX_LEN == 30

\* d.get(k, default)
Get(d, k, default) == IF k \in DOMAIN d THEN d[k] ELSE default

\* d[k] = v
DictSet(d, k, v) == [x \in DOMAIN d \cup {k} |-> IF x = k THEN v ELSE d[x]]

\* d after d.pop(k, ...) for every k of keys
Without(d, keys) == [x \in DOMAIN d \ keys |-> d[x]]

\* [f(x) for x in s]
MapSeq(s, f(_)) == [i \in 1..Len(s) |-> f(s[i])]

NoneValue == ("<None>" :> TRUE)
IsNoneValue(v) == DOMAIN v = {"<None>"}
StrProject(s) == ("<str>" :> s)
IsStrProject(p) == DOMAIN p = {"<str>"}

\* re.split(r"[bullet, -, en dash]\s*|\.\s+", s): the pieces between the
\* separators, empty pieces included (line 36)
\* The bullet U+2022 and the en dash U+2013 are the characters "<bullet>"
\* and "<en dash>".
BulletChars == {"<bullet>", "-", "<en dash>"}

RECURSIVE DropBlanks(_)
DropBlanks(s) == IF s # << >> /\ s[1] = " " THEN DropBlanks(Tail(s)) ELSE s

RECURSIVE SplitBits(_, _)
SplitBits(s, bit) ==
    IF s = << >> THEN <<bit>>
    ELSE IF s[1] \in BulletChars \/ (s[1] = "." /\ Len(s) >= 2 /\ s[2] = " ")
         THEN <<bit>> \o SplitBits(DropBlanks(Tail(s)), << >>)
         ELSE SplitBits(Tail(s), Append(bit, s[1]))

NonEmpty(x) == x # << >>

\* Lines 32-37, for a string argument
sentences(raw) == MapSeq(SelectSeq(SplitBits(Strip(raw), << >>), NonEmpty), decamel)

\* Lines 50-57: one experience entry
CleanJob(j) ==
    LET description == Get(j, "description", << >>)
        j1 == Without(j, {"title", "position", "start", "startDate", "end",
                          "endDate", "description"})
        j2 == DictSet(j1, "title",
                      decamel(IF "title" \in DOMAIN j THEN j["title"]
                              ELSE Get(j, "position", << >>)))
        j3 == DictSet(j2, "company", decamel(Get(j, "company", << >>)))
        j4 == DictSet(j3, "location", decamel(Get(j, "location", << >>)))
        j5 == DictSet(j4, "start", IF "start" \in DOMAIN j THEN j["start"]
                                   ELSE Get(j, "startDate", << >>))
        j6 == DictSet(j5, "end", IF "end" \in DOMAIN j THEN j["end"]
                                 ELSE Get(j, "endDate", << >>))
    IN  IF description # << >> /\ Get(j, "bullets", << >>) = << >>
        THEN DictSet(j6, "bullets", sentences(description))
        ELSE j6

\* " ".join([deg, field]).strip()
JoinDegree(deg, field) == Strip(deg \o <<" ">> \o field)

\* Lines 62-70: one education entry
CleanSchool(e) ==
    LET e1 == Without(e, {"degree", "fieldOfStudy", "start", "startDate", "end",
                          "endDate"})
        e2 == DictSet(e1, "degree",
                      decamel(JoinDegree(Get(e, "degree", << >>),
                                         Get(e, "fieldOfStudy", << >>))))
        e3 == DictSet(e2, "school", decamel(Get(e, "school", << >>)))
        e4 == DictSet(e3, "location", decamel(Get(e, "location", << >>)))
        e5 == DictSet(e4, "start", IF "start" \in DOMAIN e THEN e["start"]
                                   ELSE Get(e, "startDate", << >>))
        e6 == DictSet(e5, "end", IF "end" \in DOMAIN e THEN e["end"]
                                 ELSE Get(e, "endDate", << >>))
    IN  IF "description" \in DOMAIN e /\ Get(e, "bullets", << >>) = << >>
        THEN DictSet(Without(e6, {"description"}), "bullets", sentences(e["description"]))
        ELSE e6

\* Lines 75-84: one project
CleanProject(p) ==
    IF IsStrProject(p)
    THEN [title |-> decamel(p["<str>"]), url |-> << >>, bullets |-> << >>]
    ELSE [title |-> decamel(IF Get(p, "title", << >>) # << >> THEN p["title"]
                            ELSE Get(p, "name", << >>)),
          url |-> IF "url" \in DOMAIN p THEN p["url"] ELSE Get(p, "link", << >>),
          bullets |-> IF Get(p, "bullets", << >>) # << >> THEN p["bullets"]
                      ELSE sentences(Get(p, "description", << >>))]

\* sub in s, for strings
InStr(sub, s) ==
    \E i \in 1..(Len(s) - Len(sub) + 1) : SubSeq(s, i, i + Len(sub) - 1) = sub

\* Variant: entries of exactly 30 characters pass.
SkillKept_UpTo30(x) ==
    x # << >> /\ Len(x) <= SKILL_MAX_LEN
        /\ ~InStr(<<"s", "k", "i", "l", "l">>, LowerStr(x))

\* Line 90: if x and len(x) < 30 and "skill" not in x.lower()
SkillKept(x) ==
    x # << >> /\ Len(x) < SKILL_MAX_LEN
        /\ ~InStr(<<"s", "k", "i", "l", "l">>, LowerStr(x))

\* Lines 89-90: one skill category
CleanSkills(lst) == MapSeq(SelectSeq(lst, SkillKept), decamel)

\* Variant: nothing is purged.
HasLabel_Always(label) == TRUE

\* Lines 93-95: if j.get("title") / e.get("degree") / p.get("title")
HasLabel(label) == label # << >>

JobHasTitle(j) == HasLabel(Get(j, "title", << >>))
SchoolHasDegree(e) == HasLabel(Get(e, "degree", << >>))
ProjectHasTitle(p) == HasLabel(Get(p, "title", << >>))

CleanOk(r) == [ok |-> TRUE, val |-> r, exc |-> "none"]
CleanRaises(e) == [ok |-> FALSE, val |-> << >>, exc |-> e]

\* Lines 40-96.  The statements run in order and the first that raises ends
\* the call: line 45 on a None contact (None has no get), line 93 or 94 on
\* a record without the key (r["experience"], r["education"]).
clean_resume(r) ==
    LET r1 == DictSet(r, "headline", decamel(Get(r, "headline", << >>)))
        contact == Get(r, "contact", << >>)
        ph == Get(contact, "phone", << >>)
        r2 == IF ph # << >>
              THEN DictSet(r1, "contact", DictSet(contact, "phone", normalise_phone(ph)))
              ELSE r1
        r3 == IF "experience" \in DOMAIN r
              THEN DictSet(r2, "experience", MapSeq(r["experience"], CleanJob)) ELSE r2
        r4 == IF "education" \in DOMAIN r
              THEN DictSet(r3, "education", MapSeq(r["education"], CleanSchool)) ELSE r3
        r5 == DictSet(r4, "projects", MapSeq(Get(r, "projects", << >>), CleanProject))
        r6 == IF "skills" \in DOMAIN r
              THEN DictSet(r5, "skills",
                           [cat \in DOMAIN r["skills"] |-> CleanSkills(r["skills"][cat])])
              ELSE r5
    IN  IF "contact" \in DOMAIN r /\ IsNoneValue(r["contact"])
        THEN CleanRaises("AttributeError")
        ELSE IF "experience" \notin DOMAIN r THEN CleanRaises("KeyError")
        ELSE IF "education" \notin DOMAIN r THEN CleanRaises("KeyError")
        ELSE CleanOk([r6 EXCEPT !["experience"] = SelectSeq(@, JobHasTitle),
                                !["education"] = SelectSeq(@, SchoolHasDegree),
                                !["projects"] = SelectSeq(@, ProjectHasTitle)])

\* Records a parser may hand to clean_resume: each part is present in one
\* of a few shapes or missing.
Absent == "<absent>"

HeadlineShapes == { Absent, "camel" }
ContactShapes == { Absent, "none", "empty", "nine digits", "+48 form" }
ExperienceShapes == { Absent, "empty", "jobs" }
EducationShapes == { Absent, "schools" }
ProjectShapes == { Absent, "projects" }
SkillShapes == { Absent, "spec scenario", "camel", "lengths" }

HeadlineOf(shape) == <<"s", "e", "n", "i", "o", "r", "D", "a", "t", "a", "E", "n", "g", "i", "n", "e", "e", "r">>

ContactOf(shape) ==
    CASE shape = "none" -> NoneValue
      [] shape = "empty" -> << >>
      [] shape = "nine digits" -> [phone |-> <<"6", "0", "0", "-", "7", "0", "0", "-", "8", "0", "0">>]
      [] shape = "+48 form" -> [phone |-> <<"+", "4", "8", " ", "6", "0", "0", " ", "7", "0", "0", " ", "8", "0", "0">>, email |-> <<"a", "@", "b", ".", "c">>]

ExperienceOf(shape) ==
    CASE shape = "empty" -> << >>
      [] shape = "jobs" ->
           << [title |-> <<"l", "e", "a", "d", "D", "e", "v">>, description |-> <<"B", "u", "i", "l", "t", " ", "a", "p", "i", ".", " ", "R", "a", "n", " ", "o", "p", "s", " ", "-", " ", "o", "n", "C", "a", "l", "l">>],
              [company |-> <<"A", "c", "m", "e">>],
              [position |-> <<"Q", "A">>, startDate |-> <<"2", "0", "2", "0">>],
              [title |-> <<" ">>] >>

EducationOf(shape) ==
    << [degree |-> <<"B", "S", "c">>, fieldOfStudy |-> <<"c", "o", "m", "p", "S", "c", "i">>],
       [school |-> <<"M", "I", "T">>],
       [fieldOfStudy |-> <<"P", "h", "y", "s", "i", "c", "s">>, description |-> <<"T", "h", "e", "s", "i", "s", ".", " ", "H", "o", "n", "o", "u", "r", "s">>] >>

ProjectsOf(shape) ==
    << StrProject(<<"m", "y", "A", "p", "p">>),
       [title |-> << >>, url |-> <<"u">>],
       [name |-> <<"S", "i", "t", "e">>, link |-> <<"x", ".", "y">>, description |-> <<"F", "a", "s", "t", ".", " ", "S", "m", "a", "l", "l">>],
       StrProject(<< >>) >>

SkillsOf(shape) ==
    CASE shape = "spec scenario" ->
           [languages |-> << <<"P", "y", "t", "h", "o", "n">>,
                            <<"C", "o", "r", "e", " ", "S", "k", "i", "l", "l", "s">>,
                            <<"A", " ", "v", "e", "r", "y", " ", "v", "e", "r", "y", " ", "v", "e", "r", "y", " ", "l", "o", "n", "g", " ", "s", "k", "i", "l", "l", " ", "e", "n", "t", "r", "y", " ", "e", "x", "c", "e", "e", "d", "i", "n", "g", " ", "t", "h", "i", "r", "t", "y", " ", "c", "h", "a", "r", "s">> >>]
      [] shape = "camel" ->
           [tools |-> << <<"n", "o", "d", "e", "J", "s">>,
                        <<"a", "B", "a", "B", "a", "B", "a", "B", "a", "B", "a", "B", "a", "B", "a", "B", "a", "B", "a", "B", "a", "B", "a", "B", "a", "B", "a", "B", "a">>,
                        <<" ">>, << >> >>]
      [] shape = "lengths" ->
           [tools |-> << <<"a", "a", "a", "a", "a", "a", "a", "a", "a", "a", "a", "a", "a", "a", "a", "a", "a", "a", "a", "a", "a", "a", "a", "a", "a", "a", "a", "a", "a", "a">>,
                        <<"b", "b", "b", "b", "b", "b", "b", "b", "b", "b", "b", "b", "b", "b", "b", "b", "b", "b", "b", "b", "b", "b", "b", "b", "b", "b", "b", "b", "b">>,
                        <<"S", "K", "I", "L", "L", "S", "E", "T">> >>,
            soft |-> << >>]

\* The record with the parts of these shapes
ResumeOf(h, c, x, e, p, s) ==
    LET with(d, k, shape, v) == IF shape = Absent THEN d ELSE DictSet(d, k, v)
    IN  with(with(with(with(with(with(<< >>,
            "headline", h, HeadlineOf(h)),
            "contact", c, ContactOf(c)),
            "experience", x, ExperienceOf(x)),
            "education", e, EducationOf(e)),
            "projects", p, ProjectsOf(p)),
            "skills", s, SkillsOf(s))

CleanInputs ==
    { ResumeOf(h, c, x, e, p, s) :
        h \in HeadlineShapes, c \in ContactShapes, x \in ExperienceShapes,
        e \in EducationShapes, p \in ProjectShapes, s \in SkillShapes }

CleanInit ==
    /\ planCache = << >>
    /\ htmlCache = << >>
    /\ FreshCaller
    /\ fin \in CleanInputs
    /\ fout = << >>
    /\ callers = << >>
    /\ ModulesIdle

\* clean_resume(r)
Call_clean_resume ==
    /\ fout = << >>
    /\ fout' = <<clean_resume(fin)>>
    /\ PureFrame

\* clean_resume(clean_resume(r)), when the first call returns
Call_clean_resume_twice ==
    /\ fout = << >>
    /\ LET once == clean_resume(fin)
       IN  fout' = IF once.ok THEN <<once, clean_resume(once.val)>> ELSE <<once>>
    /\ PureFrame

CleanSpec == CleanInit /\ [][Call_clean_resume \/ Call_clean_resume_twice]_vars

(***************************************************************************)
(* parser_llm.parse_resume_llm: one caller, calls one after the other.     *)
(***************************************************************************)
MaxParserCalls == 3

ParserTexts == {"resume A", "resume B"}

\* Records the model may answer with
FullRecord == ResumeOf("camel", "nine digits", "jobs", "schools", "projects", "camel")
BareRecord == ResumeOf("camel", "nine digits", Absent, Absent, Absent, Absent)

\* What chat() does at line 60: it returns a reply or raises.  A reply is
\* the JSON text of a record, alone, inside a markdown fence or after a
\* sentence, or it is text with no JSON object in it.
ParserReplies ==
    { [form |-> "json", data |-> FullRecord],
      [form |-> "fenced", data |-> FullRecord],
      [form |-> "json", data |-> BareRecord],
      [form |-> "prose", data |-> << >>] }

ParserOutcomes ==
    { [kind |-> "reply", reply |-> r] : r \in ParserReplies }
        \cup { [kind |-> "raise", reply |-> << >>] }

\* Lines 42-48 after line 61: json.loads succeeds on JSON alone; otherwise
\* the first "{" to the last "}" is parsed, which is the record of a fenced
\* or introduced reply; with no braces the JSONDecodeError is re-raised.
extract_json(reply) ==
    IF reply.form \in {"json", "fenced"}
    THEN CleanOk(reply.data)
    ELSE CleanRaises("JSONDecodeError")

\* json.dumps(data, ...) and json.loads(text) on a file this module wrote:
\* the file holds the JSON text of data.  A record of strings, lists and
\* string-keyed dicts is read back equal.
json_dumps(data) == [json |-> data]
json_loads(text) == text.json

parser_cache_path(text) == <<".cache", sha(text), ".json">>

\* Lines 50-66 on a cache miss, the model call having the given outcome:
\* <<result, cache afterwards>>.  The write of line 65 is reached only when
\* chat, _extract_json and clean_resume all returned.
ParseMiss(p, text, outcome) ==
    IF outcome.kind = "raise" THEN <<CleanRaises("LLMError"), p.cache>>
    ELSE LET data == extract_json(outcome.reply)
             cleaned == IF data.ok THEN clean_resume(data.val) ELSE data
         IN  <<cleaned,
               IF cleaned.ok
               THEN WriteText(p.cache, parser_cache_path(text), json_dumps(cleaned.val))
               ELSE p.cache>>

\* Lines 50-66
parse_resume_llm(p, text, outcome) ==
    LET path == parser_cache_path(text)
        hit == Exists(p.cache, path)
        miss == ParseMiss(p, text, outcome)
    IN  [cache |-> IF hit THEN p.cache ELSE miss[2],
         calls |-> Append(p.calls,
                          [text |-> text, queried |-> ~hit,
                           result |-> IF hit THEN CleanOk(json_loads(p.cache[path]))
                                      ELSE miss[1]])]

ParserInit ==
    /\ planCache = << >>
    /\ htmlCache = << >>
    /\ FreshCaller
    /\ fin = << >> /\ fout = << >> /\ callers = << >>
    /\ ModulesIdle

ParserFrame ==
    UNCHANGED <<cacheVars, pc, callVars, planVars, htmlVars, histVars, messages,
                sink, result, chats, rsp, exc, cacheOps, pairVars, fin, fout,
                callers, srv, gui>>

Call_parse_resume_llm ==
    /\ Len(prs.calls) < MaxParserCalls
    /\ \E text \in ParserTexts, outcome \in ParserOutcomes :
           prs' = parse_resume_llm(prs, text, outcome)
    /\ ParserFrame

ParserSpec == ParserInit /\ [][Call_parse_resume_llm]_vars

(***************************************************************************)
(* gui.py: the AI Direct Build run and the change-review flow of one       *)
(* session.  Each handler runs within one script run, start to end.        *)
(***************************************************************************)
MaxGuiOps == 4

\* Line 456-457.  The source writes four backslashes before each n, which
\* Python reads as two backslash characters followed by n: the piece
\* "\\\\n" below.  "NL" is a line break.
PLAN_PREFIX == <<"Website Plan:", "\\\\n", "[fence]", "\\\\n">>
PLAN_SUFFIX == <<"\\\\n", "[fence]">>

\* generator_llm.py line 471: the message that carries the plan
PlanMessage(plan) == <<"Website Plan:", "NL", "[fence]", "NL">> \o plan \o <<"NL", "[fence]">>

\* s.startswith(p), s.endswith(p)
StartsWith(s, p) == Len(s) >= Len(p) /\ SubSeq(s, 1, Len(p)) = p
EndsWith(s, p) == Len(s) >= Len(p) /\ SubSeq(s, Len(s) - Len(p) + 1, Len(s)) = p

\* Line 468
IsPlanMessage(message) == StartsWith(message, PLAN_PREFIX) /\ EndsWith(message, PLAN_SUFFIX)

\* Lines 465-485: status_update_callback, as far as the session goes
status_update_callback(g, message) ==
    IF IsPlanMessage(message)
    THEN [g EXCEPT !.website_plan =
                       SubSeq(message, Len(PLAN_PREFIX) + 1, Len(message) - Len(PLAN_SUFFIX))]
    ELSE g

RECURSIVE DeliverAll(_, _)
DeliverAll(g, msgs) ==
    IF msgs = << >> THEN g
    ELSE DeliverAll(status_update_callback(g, Head(msgs)), Tail(msgs))

GuiPlans == { <<"IS_RESUME: TRUE", "NL", "PLAN:", "NL", "sections">> }

\* Documents generate_html_llm and apply_user_changes_llm may return.  The
\* last one is a page whose text holds the word Error; "<p>hi</p>" is a
\* document of fewer than 100 characters.
GuiDocs ==
    { <<"<!DOCTYPE html>", "<body>v1</body>", "</html>">>,
      <<"<!DOCTYPE html>", "<body>v2</body>", "</html>">>,
      <<"<!DOCTYPE html>", "<body>", "Error", "handling", "</body>", "</html>">> }

ShortDocs == { <<"<p>hi</p>">> }

\* What generate_html_llm(raw_text, status_callback=...) does, seen from its
\* caller: lines 455-461 (not a resume: one message, "" returned), lines
\* 469-573 (the plan message, then a document), or an exception.
GenerateOutcomes ==
    { [kind |-> "return", ret |-> << >>, plan |-> << >>,
       msgs |-> << <<"[x] The provided text does not appear to be a valid resume. Reason: ", "cover letter">> >>] }
    \cup { [kind |-> "return", ret |-> d, plan |-> p,
            msgs |-> << PlanMessage(p), <<"Now generating Website based on this plan...">> >>] :
              d \in GuiDocs, p \in GuiPlans }
    \cup { [kind |-> "raise", ret |-> << >>, plan |-> << >>, msgs |-> << >>] }

\* Lines 497-501: "Error" not in html_output and ...
LooksLikeWebsite(html_output) == ~Contains(html_output, "Error")

\* serve_html_temporarily(html) inside try/except (lines 502-506, 995-999,
\* 1084-1088): <<server afterwards, URL or 0 when it raised>>.  update_content
\* removes no directory: it starts a server only when none is running.
Serve(s, html, port, bind_ok) ==
    LET s1 == update_content(s, html, port, TRUE, bind_ok)
    IN  <<s1, IF s1.ret = "raise" THEN 0 ELSE s1.port>>

\* Lines 434-445
reset_generation_output_state(g) ==
    [g EXCEPT !.generated_html = << >>, !.display_html = FALSE,
              !.website_plan = << >>, !.temp_server_url = 0,
              !.pending_change_summary = << >>, !.original_html_backup = << >>,
              !.change_user_request = << >>]

GuiFrame ==
    UNCHANGED <<cacheVars, pc, callVars, planVars, htmlVars, histVars, messages,
                sink, result, chats, rsp, exc, cacheOps, pairVars, fin, fout,
                callers, prs>>

Logged(g, handler) == [g EXCEPT !.log = Append(@, handler)]

\* Lines 449-523: trigger_website_generation in AI Direct Build mode
Gui_trigger_website_generation ==
    /\ Len(gui.log) < MaxGuiOps
    /\ \E out \in GenerateOutcomes, rmtree_ok \in BOOLEAN, bind_ok \in BOOLEAN :
         LET s0 == stop_server(srv, rmtree_ok)
             g0 == [Logged(reset_generation_output_state(gui), "generate")
                        EXCEPT !.emitted_plan = out.plan, !.serve_raised = FALSE]
             g1 == DeliverAll(g0, out.msgs)
         IN  \E port \in FreePorts(s0) :
               IF out.kind = "raise"
               THEN /\ gui' = [g1 EXCEPT !.label = "Unexpected error during creation."]
                    /\ srv' = s0
               ELSE LET g2 == [g1 EXCEPT !.generated_html = out.ret, !.display_html = TRUE]
                        served == Serve(s0, out.ret, port, bind_ok)
                    IN  IF LooksLikeWebsite(out.ret)
                        THEN /\ srv' = served[1]
                             /\ gui' = [g2 EXCEPT
                                         !.temp_server_url = IF served[2] # 0 THEN served[2] ELSE @,
                                         !.serve_raised = served[2] = 0,
                                         !.label = "Custom website created successfully!"]
                        ELSE /\ srv' = s0
                             /\ gui' = [g2 EXCEPT !.label = "Website creation completed with warnings."]
    /\ GuiFrame

\* The preview, the review section and the chat are on the page (line 726).
PageShowsWebsite == gui.display_html /\ gui.generated_html # << >>

\* What apply_user_changes_llm and summarize_html_changes_llm do, seen from
\* the handler: the modified document (the current one when the model call
\* failed, lines 639-644) and the summary, or an exception of the second.
ChangeOutcomes ==
    { [modified |-> d, summary |-> s, raises |-> r] :
        d \in GuiDocs \cup ShortDocs \cup {<< >>},
        s \in { <<"Changed the colours.">>, << >> },
        r \in BOOLEAN }

\* Variant: the backup is taken after the change.
BackupOf_Modified(original_html, modified_html) == modified_html

\* Line 1079: st.session_state.original_html_backup = original_html
BackupOf(original_html, modified_html) == original_html

\* Lines 1032-1119: a change request typed into the chat
Gui_change_request ==
    /\ Len(gui.log) < MaxGuiOps
    /\ PageShowsWebsite
    /\ \E out \in ChangeOutcomes, bind_ok \in BOOLEAN, port \in FreePorts(srv) :
         LET original_html == gui.generated_html
             modified_html == IF out.modified = << >> THEN original_html ELSE out.modified
             g0 == [Logged(gui, "change") EXCEPT !.apply_plan = gui.website_plan,
                                                 !.serve_raised = FALSE]
             served == Serve(srv, modified_html, port, bind_ok)
         IN  IF modified_html \notin ShortDocs /\ ~out.raises
             THEN /\ srv' = served[1]
                  /\ gui' = [g0 EXCEPT
                              !.held = original_html,
                              !.original_html_backup = BackupOf(original_html, modified_html),
                              !.pending_change_summary = out.summary,
                              !.change_user_request = <<"make it blue">>,
                              !.generated_html = modified_html,
                              !.temp_server_url = IF served[2] # 0 THEN served[2] ELSE @,
                              !.serve_raised = served[2] = 0]
             ELSE /\ srv' = srv
                  /\ gui' = g0
    /\ GuiFrame

\* Lines 973-986: Accept Changes
Gui_accept ==
    /\ Len(gui.log) < MaxGuiOps
    /\ PageShowsWebsite
    /\ gui.pending_change_summary # << >>
    /\ gui' = [Logged(gui, "accept") EXCEPT !.pending_change_summary = << >>,
                                            !.original_html_backup = << >>,
                                            !.change_user_request = << >>]
    /\ srv' = srv
    /\ GuiFrame

\* Lines 988-1011: Discard Changes
Gui_discard ==
    /\ Len(gui.log) < MaxGuiOps
    /\ PageShowsWebsite
    /\ gui.pending_change_summary # << >>
    /\ \E bind_ok \in BOOLEAN, port \in FreePorts(srv) :
         LET served == Serve(srv, gui.original_html_backup, port, bind_ok)
             g0 == [Logged(gui, "discard") EXCEPT !.serve_raised = FALSE]
             g1 == IF gui.original_html_backup # << >>
                   THEN [g0 EXCEPT !.generated_html = gui.original_html_backup,
                                   !.temp_server_url = IF served[2] # 0 THEN served[2] ELSE @,
                                   !.serve_raised = served[2] = 0]
                   ELSE g0
         IN  /\ srv' = IF gui.original_html_backup # << >> THEN served[1] ELSE srv
             /\ gui' = [g1 EXCEPT !.pending_change_summary = << >>,
                                  !.original_html_backup = << >>,
                                  !.change_user_request = << >>]
    /\ GuiFrame

GuiNext ==
    \/ Gui_trigger_website_generation
    \/ Gui_change_request
    \/ Gui_accept
    \/ Gui_discard

GuiSpec == Init /\ [][GuiNext]_vars


(***************************************************************************)
(* Properties.                                                              *)
(***************************************************************************)
Completed(o) == pc = "idle" /\ op = o /\ result.kind = "return"

\* The plan stage of the current call has handed back its triple.
PlanStageDone == op \in {"plan", "generate"} /\ plan_ret # NoTriple

\* The current generate_html_llm call missed the HTML cache and entered the loop.
InLoop == op = "generate" /\ messages.kind \in {"generate", "fix"}

ThisHtmlPath == html_cache_path(raw_text, website_plan)

\* C1: once a run of _generate_website_plan for a text has completed, a later
\* run for the same text makes no model invocation.
C1_SecondPlanRunMakesNoInvocation ==
    (op \in {"plan", "generate"} /\ wasPlanDone) => chats.plan = 0

C1_Witness ==
    /\ Completed("plan")
    /\ wasPlanDone
    /\ PlanStageDone
    /\ chats.plan = 0

\* C2: the triple returned by a later run for a text (which parses the cached
\* reply) equals the triple the cache-miss run for that text returned.
C2_HitTripleEqualsMissTriple ==
    (PlanStageDone /\ wasPlanDone) => plan_ret = planFirst[raw_text]

\* C3: after a completed generate_html_llm(text) that returned a document, a
\* second call with the same text invokes the model neither for the plan nor
\* for the HTML and returns the same document.
C3_SecondGenerateIsCached ==
    (Completed("generate") /\ wasGenDone) =>
        /\ chats = NoChats
        /\ result.val = genFirst[raw_text]

\* C4: for an input classified as a resume, the document generate_html_llm
\* returns is never the empty string.
C4_ReturnedDocumentNeverEmpty ==
    (Completed("generate") /\ plan_ret[2] /\ InLoop) => result.val # << >>

\* C5: when the document of attempt 0 has no validation errors, exactly one
\* HTML model call is made, no repair prompt is built, and that document is
\* the one cached and returned.
C5_ValidFirstAttemptIsFinal ==
    (InLoop /\ firstValid) =>
        /\ chats.html = 1
        /\ nFix = 0
        /\ messages.kind = "generate"
        /\ current_html = extract_html(rsp)
        /\ pc \in {"html_write", "idle"}
        /\ pc = "idle" =>
              /\ result = Returned(current_html)
              /\ Exists(htmlCache, ThisHtmlPath)
              /\ htmlCache[ThisHtmlPath] = current_html

C5_Witness ==
    /\ Completed("generate")
    /\ InLoop
    /\ firstValid
    /\ chats.html = 1
    /\ htmlCache[ThisHtmlPath] = extract_html(rsp)

\* The two terminal states of the loop.
LoopValid ==
    /\ validate_html_css(current_html) = << >>
    /\ chats.html = attempt + 1
    /\ result = Returned(current_html)

LoopExhausted ==
    /\ validate_html_css(current_html) # << >>
    /\ chats.html = MAX_FIX_ATTEMPTS + 1
    /\ result = Returned(current_html)

\* C6: on an HTML cache miss the loop makes at least 1 and at most
\* _MAX_FIX_ATTEMPTS + 1 HTML model calls (one generation, then repairs only),
\* and a started loop always ends: with a valid document, or exhausted after
\* the last attempt, unless a model call raised.
C6_LoopIsBoundedAndTerminates ==
    /\ [](InLoop =>
            /\ chats.html <= MAX_FIX_ATTEMPTS + 1
            /\ nFix <= MAX_FIX_ATTEMPTS
            /\ (pc = "idle" /\ exc = << >>) =>
                  /\ chats.html >= 1
                  /\ nFix = chats.html - 1
                  /\ LoopValid \/ LoopExhausted)
    /\ (pc = "html_chat") ~> (pc = "idle" /\ InLoop /\ chats.html >= 1)

C6_Witness ==
    /\ Completed("generate")
    /\ InLoop
    /\ LoopExhausted
    /\ nFix = MAX_FIX_ATTEMPTS

\* C7: when the last attempt (index _MAX_FIX_ATTEMPTS) still has validation
\* errors, its document is written to the HTML cache under the (text, plan)
\* fingerprint and returned; nothing is raised.
C7_ExhaustedDocumentIsCachedAndReturned ==
    (/\ pc = "idle"
     /\ InLoop
     /\ exc = << >>
     /\ attempt = MAX_FIX_ATTEMPTS
     /\ validate_html_css(extract_html(rsp)) # << >>) =>
        /\ result = Returned(extract_html(rsp))
        /\ Exists(htmlCache, ThisHtmlPath)
        /\ htmlCache[ThisHtmlPath] = result.val

C7_Witness ==
    /\ Completed("generate")
    /\ InLoop
    /\ attempt = MAX_FIX_ATTEMPTS
    /\ chats.html = MAX_FIX_ATTEMPTS + 1
    /\ validate_html_css(extract_html(rsp)) # << >>
    /\ extract_html(rsp) # << >>
    /\ htmlCache[ThisHtmlPath] = extract_html(rsp)

\* C9: when the model call inside apply_user_changes_llm raises, the function
\* raises nothing and returns exactly the current_html it was given.
C9_ApplyFailureReturnsOriginal ==
    (pc = "idle" /\ op = "apply" /\ exc # << >>) => result = Returned(arg_html)

C9_Witness ==
    /\ Completed("apply")
    /\ exc # << >>
    /\ result.val = arg_html
    /\ arg_html # << >>

\* C10: apply_user_changes_llm makes exactly one model call and never retries;
\* a modified document with validation errors is reported as a warning to the
\* status sink and returned as is.
C10_ApplyIsSingleShot ==
    op = "apply" =>
        /\ chats.plan = 0 /\ chats.html = 0 /\ nFix = 0
        /\ chats.apply = IF pc = "idle" THEN 1 ELSE 0
        /\ (pc = "idle" /\ exc = << >>) =>
              /\ result = Returned(extract_html(rsp))
              /\ (cb /\ validate_html_css(result.val) # << >>) =>
                    sink[Len(sink)] =
                        << "Validation found",
                           ToString(Len(validate_html_css(result.val))),
                           "issues, but applying changes anyway." >>

C10_Witness ==
    /\ Completed("apply")
    /\ exc = << >>
    /\ cb
    /\ validate_html_css(result.val) # << >>
    /\ result.val # arg_html
    /\ chats.apply = 1


\* The call touched the HTML cache (exists, read or write).
TouchedHtmlCache ==
    \E i \in 1..Len(cacheOps) : cacheOps[i] \in {"html.exists", "html.read", "html.write"}

\* C11: when the plan stage classifies the input as not a resume,
\* generate_html_llm ends there: it returns no document, makes no HTML model
\* call and neither reads nor writes the HTML cache.
C11_NotResumeIsTerminal ==
    (op = "generate" /\ PlanStageDone /\ ~plan_ret[2]) =>
        /\ pc = "idle"
        /\ result = Returned(<< >>)
        /\ chats.html = 0
        /\ ~TouchedHtmlCache
        /\ messages.kind \notin {"generate", "fix"}

C11_Witness ==
    /\ Completed("generate")
    /\ PlanStageDone
    /\ ~plan_ret[2]
    /\ plan_ret[3] = <<"no work history found">>
    /\ result.val = << >>
    /\ htmlCache # << >>

\* The text s holds the text sub.
HasText(s, sub) ==
    \E i \in 0..(Len(s) - Len(sub)) : SubSeq(s, i + 1, i + Len(sub)) = sub

\* What the caller of the current call has in hand mentions the text `what`:
\* the returned value or a message delivered to its status callback.
CallerReceives(what) ==
    \/ result.kind = "return" /\ HasText(result.val, what)
    \/ \E i \in 1..Len(sink) : HasText(sink[i], what)

\* C12: a completed generate_html_llm call that refused the input as not a
\* resume hands the refusal reason to its caller, whether or not a status
\* callback was passed.
C12_RefusalReasonReachesCaller ==
    (Completed("generate") /\ PlanStageDone /\ ~plan_ret[2]) =>
        CallerReceives(plan_ret[3])

\* The second run of a paired comparison has ended.
PairDone == phase = "second" /\ pc = "idle"

\* C13: the status callback is not a control interface.  From the same cache
\* contents and with the same model outcomes, the run without a callback
\* returns (or raises) what the run with a callback did, makes the same model
\* calls with the same prompts, in the same order, and leaves the same cache
\* contents after the same cache accesses.
C13_SinkIsNotAControlInterface ==
    PairDone =>
        /\ result = saved.result
        /\ obs = saved.obs
        /\ tape = saved.tape
        /\ planCache = saved.planAfter
        /\ htmlCache = saved.htmlAfter

C13_Witness ==
    /\ PairDone
    /\ op = "generate"
    /\ ~cb
    /\ sink = << >>
    /\ chats.html = MAX_FIX_ATTEMPTS + 1
    /\ htmlCache # saved.html0
    /\ result = saved.result

\* C14: two different pairs (resume text, plan text) never give the same
\* HTML cache key.
C14_DistinctPairsGiveDistinctKeys ==
    (fout # << >> /\ fin[1] # fin[2]) => fout[1] # fout[2]

\* C15: for one resume text, two different plans give two different HTML
\* cache keys.
C15_ChangedPlanChangesKey ==
    (/\ fout # << >>
     /\ fin[1].raw_text = fin[2].raw_text
     /\ fin[1].website_plan # fin[2].website_plan) => fout[1] # fout[2]

C15_Witness ==
    /\ fout # << >>
    /\ fin[1].raw_text = fin[2].raw_text
    /\ fin[1].raw_text = <<"a", "||PLAN||">>
    /\ fin[1].website_plan = <<"a">>
    /\ fin[2].website_plan = <<"||PLAN||", "a">>
    /\ fout[1] = sha(<<"a", "||PLAN||", "||PLAN||", "a">>)

\* The first line of a text: what precedes its first line break.
FirstLine(s) == SplitHead(s, "NL")

\* C16: is_resume is decided by the first line of the reply only: it is true
\* exactly when the first line holds the sentinel IS_RESUME: TRUE, on the
\* call that got the reply and on a later call that reads it from the cache.
C16_FirstLineDecidesIsResume ==
    fout # << >> =>
        (fout[2][2] <=> Contains(FirstLine(Strip(fin)), "IS_RESUME: TRUE"))

\* The current call found the plan file and read it.
PlanCacheHit == SubSeq(cacheOps, 1, 2) = <<"plan.exists", "plan.read">>

\* The plan file of the current call's text
ThisPlanBlob == planCache[plan_cache_path(raw_text)]

\* C17: when the plan file holds a blob without the sentinel IS_RESUME: TRUE
\* and with a REASON: marker, _generate_website_plan returns
\* (None, False, r), r being the trimmed text after the first REASON:
\* marker, and makes no model call.
C17_CachedRefusalIsParsed ==
    (/\ Completed("plan")
     /\ PlanCacheHit
     /\ ~Contains(ThisPlanBlob, "IS_RESUME: TRUE")
     /\ Contains(ThisPlanBlob, "REASON:")) =>
        /\ result.val = <<None, FALSE,
                          Strip(SubSeq(ThisPlanBlob, Find(ThisPlanBlob, "REASON:") + 1,
                                       Len(ThisPlanBlob)))>>
        /\ chats.plan = 0

C17_Witness ==
    /\ Completed("plan")
    /\ PlanCacheHit
    /\ ThisPlanBlob = <<"IS_RESUME: FALSE", "NL", "REASON:", " ", "no work history found">>
    /\ result.val = <<None, FALSE, <<"no work history found">>>>
    /\ chats.plan = 0

\* C18: a reply classified as a resume that has no PLAN: marker gives the
\* placeholder plan with is_resume = True, on the call that got the reply
\* and on a later call that reads it from the cache.
C18_MissingPlanMarkerGivesPlaceholder ==
    (fout # << >> /\ fout[2][2] /\ ~Contains(Strip(fin), "PLAN:")) =>
        fout[2][1] = PLAN_NOT_FOUND

\* C19: when the model call raises inside _generate_website_plan or inside
\* an attempt of generate_html_llm, the failure is reported to the status
\* callback and the exception then reaches the caller.
C19_ModelFailureIsReportedThenPropagates ==
    (pc = "idle" /\ op \in {"plan", "generate"} /\ exc # << >> /\ cb) =>
        /\ result = Raised(exc[1])
        /\ \E i \in 1..Len(sink) : HasText(sink[i], exc)

\* C20: once the HTML cache holds a document under a key, the content under
\* that key never changes, whatever the interleaving of the calls.
C20_CachedDocumentNeverChanges ==
    [][\A p \in DOMAIN htmlCache :
           p \in DOMAIN htmlCache' /\ htmlCache'[p] = htmlCache[p]]_vars

\* Caller d has put the whole document doc into the cache file of caller c.
WroteWhole(d, c, doc) ==
    /\ ConcPath(d) = ConcPath(c)
    /\ callers[d].pc \in {"html_writing", "done"}
    /\ ~callers[d].hit
    /\ callers[d].current_html = doc

\* C21: a caller that finds and reads a cache file another caller is writing
\* gets a complete document: the whole content some caller wrote, never an
\* empty or partly written file.
C21_ReaderSeesCompleteDocument ==
    \A c \in DOMAIN callers :
        (callers[c].hit /\ callers[c].pc = "done") =>
            \E d \in DOMAIN callers \ {c} : WroteWhole(d, c, callers[c].result.val)

\* C22: whatever start_server, update_content and stop_server calls were
\* made, at most one HTTP server instance is bound to a port, and it is the
\* one the object holds.
C22_AtMostOneServerBound ==
    /\ Cardinality(srv.bound) <= 1
    /\ \A b \in srv.bound : b.id = srv.server

C22_Witness ==
    /\ srv.made = 3
    /\ srv.is_running
    /\ srv.bound = {[id |-> 3, port |-> 8001]}

\* d[from..from+8] written +48 DDD DDD DDD
ReferenceGrouping(d, from) ==
    <<"+", "4", "8", " ", d[from], d[from + 1], d[from + 2], " ",
      d[from + 3], d[from + 4], d[from + 5], " ",
      d[from + 6], d[from + 7], d[from + 8]>>

\* C26: normalise_phone is the three-case reference: with d the digits of
\* the input, d starting with 48 and of 11 digits or more gives +48 and the
\* nine digits after the 48 grouped 3-3-3; else d of exactly 9 digits gives
\* +48 and those digits grouped 3-3-3; else the input comes back unchanged.
C26_NormalisePhoneIsReference ==
    fout # << >> =>
        LET d == DigitsOf(fin)
        IN  fout[1] = IF Len(d) >= 11 /\ d[1] = "4" /\ d[2] = "8"
                      THEN ReferenceGrouping(d, 3)
                      ELSE IF Len(d) = 9 THEN ReferenceGrouping(d, 1)
                      ELSE fin

C26_Witness ==
    /\ fin = <<"+", "4", "8", " ", "6", "0", "0", "-", "7", "0", "0", "-", "8", "0", "0">>
    /\ fout = << <<"+", "4", "8", " ", "6", "0", "0", " ", "7", "0", "0", " ", "8", "0", "0">> >>

\* C23: clean_resume is idempotent: on every record on which it returns,
\* cleaning the result again returns the same record.
C23_CleanResumeIsIdempotent ==
    (Len(fout) = 2 /\ fout[1].ok) => (fout[2].ok /\ fout[2].val = fout[1].val)

\* C24: clean_resume never raises: records with missing parts or a None
\* contact are cleaned too.
C24_CleanResumeNeverRaises ==
    fout # << >> => fout[1].ok

\* The record clean_resume returned in the current run
Cleaned == fout[1].val

CleanReturned == fout # << >> /\ fout[1].ok

\* C25: after clean_resume returns, every experience entry has a non-empty
\* title, every education entry a non-empty degree and every project a
\* non-empty title: the normalised entries with an empty label are gone
\* and the others are kept in their original order.
C25_PurgedListsKeepLabelledEntries ==
    CleanReturned =>
        LET titled(j) == j["title"] # << >>
            graded(e) == e["degree"] # << >>
        IN  /\ \A i \in DOMAIN Cleaned["experience"] : Cleaned["experience"][i]["title"] # << >>
            /\ \A i \in DOMAIN Cleaned["education"] : Cleaned["education"][i]["degree"] # << >>
            /\ \A i \in DOMAIN Cleaned["projects"] : Cleaned["projects"][i]["title"] # << >>
            /\ Cleaned["experience"] = SelectSeq(MapSeq(fin["experience"], CleanJob), titled)
            /\ Cleaned["education"] = SelectSeq(MapSeq(fin["education"], CleanSchool), graded)
            /\ Cleaned["projects"] =
                   SelectSeq(MapSeq(Get(fin, "projects", << >>), CleanProject), titled)

\* Entries were purged from each of the three lists and two were kept.
C25_Witness ==
    /\ CleanReturned
    /\ Len(fin["experience"]) = 4 /\ Len(Cleaned["experience"]) = 2
    /\ Len(fin["education"]) = 3 /\ Len(Cleaned["education"]) = 2
    /\ "projects" \in DOMAIN fin
    /\ Len(fin["projects"]) = 4 /\ Len(Cleaned["projects"]) = 2

\* C27: of each skill category the cleaner keeps, in their order, exactly
\* the entries that are non-empty, shorter than 30 characters and free of
\* "skill" in any letter case (each kept entry goes through decamel);
\* ['Python', 'Core Skills', <a long entry>] becomes ['Python'].
C27_SkillFilter ==
    (CleanReturned /\ "skills" \in DOMAIN fin) =>
        LET kept(x) == /\ x # << >>
                       /\ Len(x) < 30
                       /\ ~InStr(<<"s", "k", "i", "l", "l">>, LowerStr(x))
        IN  /\ DOMAIN Cleaned["skills"] = DOMAIN fin["skills"]
            /\ \A cat \in DOMAIN fin["skills"] :
                   Cleaned["skills"][cat] =
                       MapSeq(SelectSeq(fin["skills"][cat], kept), decamel)
            /\ fin["skills"] = SkillsOf("spec scenario")
                   => Cleaned["skills"]["languages"] = << <<"P", "y", "t", "h", "o", "n">> >>

\* A category holding entries of 30 and of 29 characters and one naming
\* "SKILL" in capitals was cleaned down to the 29 character entry.
C27_Witness ==
    /\ CleanReturned
    /\ "skills" \in DOMAIN fin
    /\ fin["skills"] = SkillsOf("lengths")
    /\ Len(Cleaned["skills"]["tools"]) = 1
    /\ Len(Cleaned["skills"]["tools"][1]) = 29

\* Calls i < j of parse_resume_llm with the same text
SameTextCalls ==
    { ij \in (DOMAIN prs.calls) \X (DOMAIN prs.calls) :
        ij[1] < ij[2] /\ prs.calls[ij[1]].text = prs.calls[ij[2]].text }

AtRepairAttempt == op = "generate" /\ pc = "html_chat" /\ attempt >= 1

\* C29: the repair prompt of attempt k >= 1 carries exactly the document
\* extracted from the reply of attempt k-1 and exactly the errors the
\* validator gave for it, and nothing of the attempts before.
C29_RepairPromptIsFromPreviousAttempt ==
    AtRepairAttempt =>
        messages = [kind |-> "fix",
                    html |-> extract_html(rsp),
                    errors |-> validate_html_css(extract_html(rsp))]

\* The second repair attempt, after two invalid documents.
C29_Witness ==
    /\ AtRepairAttempt
    /\ attempt = 2
    /\ nFix = 2
    /\ messages.errors # << >>

\* A generate_html_llm call that missed the HTML cache has returned.
CompletedMissRun ==
    /\ Completed("generate")
    /\ result.kind = "return"
    /\ chats.html >= 1

\* Number of write_text calls on the HTML cache in the current call
HtmlWrites == Len(SelectSeq(cacheOps, LAMBDA tag : tag = "html.write"))

\* C30: a document written to the HTML cache is valid or comes from the
\* final attempt (index _MAX_FIX_ATTEMPTS); an invalid document of an
\* earlier attempt is neither cached nor returned; a completed cache-miss
\* run writes the HTML cache exactly once.
C30_OnlyValidOrFinalIsCached ==
    /\ (op = "generate" /\ HtmlWrites >= 1) =>
           /\ htmlCache[ThisHtmlPath] = current_html
           /\ validate_html_css(current_html) = << >> \/ attempt = MAX_FIX_ATTEMPTS
    /\ CompletedMissRun =>
           /\ HtmlWrites = 1
           /\ result.val = current_html
           /\ validate_html_css(result.val) = << >> \/ attempt = MAX_FIX_ATTEMPTS
    /\ (op = "generate" /\ pc # "idle") => HtmlWrites = 0

\* A run whose three attempts were all invalid cached and returned the last.
C30_Witness ==
    /\ CompletedMissRun
    /\ HtmlWrites = 1
    /\ attempt = MAX_FIX_ATTEMPTS
    /\ validate_html_css(result.val) # << >>
    /\ htmlCache[ThisHtmlPath] = result.val

\* The current call has written the plan cache and made no later model call.
PlanJustStored ==
    /\ op \in {"plan", "generate"}
    /\ \E i \in DOMAIN cacheOps : cacheOps[i] = "plan.write"
    /\ chats.html = 0

\* C31: on a plan cache miss the content stored in the plan cache is the
\* raw model reply verbatim, whatever the parsing makes of it.
C31_PlanCacheHoldsRawReply ==
    PlanJustStored => planCache[plan_cache_path(raw_text)] = rsp

\* Positions in the reply itself of the doctype declarations and of the
\* closing html tags, in any letter case
DoctypesIn(raw) == { i \in DOMAIN raw : LowerTok(raw[i]) = "<!doctype html>" }
ClosingTagsIn(raw) == { i \in DOMAIN raw : LowerTok(raw[i]) = "</html>" }

IsFenced(stripped) ==
    /\ stripped # << >>
    /\ Head(stripped) \in {"[fence]", "[fence]html"}
    /\ stripped[Len(stripped)] = "[fence]"

\* C32: _extract_html follows the three-step rule: a doctype before the
\* last closing html tag gives the slice from the first doctype through
\* that tag; otherwise a fenced reply gives the trimmed fence content;
\* otherwise the result is the trimmed reply.
C32_ExtractHtmlThreeStepRule ==
    fout # << >> =>
        LET first == SetMin(DoctypesIn(fin))
            last == SetMax(ClosingTagsIn(fin))
        IN  fout[1] =
              IF DoctypesIn(fin) # {} /\ ClosingTagsIn(fin) # {} /\ first < last
              THEN SubSeq(fin, first, last)
              ELSE IF IsFenced(Strip(fin))
              THEN Strip(SubSeq(Strip(fin), 2, Len(Strip(fin)) - 1))
              ELSE Strip(fin)

\* The current call ended because a model call raised.
EndedByRaise == pc = "idle" /\ op \in {"plan", "generate"} /\ result.kind = "raise"

\* C33: when the model call raises, the call writes nothing to the cache it
\* was about to fill: after a raise in the plan stage the plan cache has no
\* file for the text, after a raise on any attempt of generate_html_llm the
\* HTML cache has none for the text and plan, so a later call misses there.
C33_RaiseWritesNoCache ==
    EndedByRaise =>
        IF chats.html = 0
        THEN /\ \A i \in DOMAIN cacheOps : cacheOps[i] # "plan.write"
             /\ ~Exists(planCache, plan_cache_path(raw_text))
        ELSE /\ \A i \in DOMAIN cacheOps : cacheOps[i] # "html.write"
             /\ ~Exists(htmlCache, ThisHtmlPath)

\* The model call of a repair attempt raised after an earlier attempt had
\* produced a document.
C33_Witness ==
    /\ EndedByRaise
    /\ attempt >= 1
    /\ current_html # << >>
    /\ ~Exists(htmlCache, ThisHtmlPath)

\* C34: apply_user_changes_llm neither reads nor writes the plan cache or
\* the HTML cache, whatever its outcome.
C34_ApplyTouchesNoCache ==
    [][op' = "apply" => (cacheOps' = << >> /\ planCache' = planCache /\ htmlCache' = htmlCache)]_vars

\* An apply_user_changes_llm call returned a modified document that fails
\* validation, with files in both caches.
C34_Witness ==
    /\ Completed("apply")
    /\ planCache # << >>
    /\ htmlCache # << >>
    /\ cacheOps = << >>
    /\ result.val # arg_html
    /\ validate_html_css(result.val) # << >>

\* The method called last on the server object
LastServerCall == IF srv.log = << >> THEN "none" ELSE srv.log[Len(srv.log)]

\* C35: update_content on a running server replaces the served file and
\* leaves the instance, its port, its thread and its directory as they
\* were (nothing stopped, bound or created); with no server running it
\* does what start_server does.
C35_UpdateKeepsRunningServer ==
    [][(srv'.ops = srv.ops + 1 /\ srv'.log[Len(srv'.log)] = "update_content") =>
          IF srv.is_running
          THEN /\ srv'.server = srv.server
               /\ srv'.server_thread = srv.server_thread
               /\ srv'.port = srv.port
               /\ srv'.temp_dir = srv.temp_dir
               /\ srv'.is_running
               /\ srv'.bound = srv.bound
               /\ srv'.threads = srv.threads
               /\ srv'.made = srv.made
               /\ srv'.dirs = WriteText(srv.dirs, srv.temp_dir, srv'.doc)
          ELSE \E port \in Ports, rmtree_ok \in BOOLEAN, bind_ok \in BOOLEAN :
                 LET s == start_server(srv, srv'.doc, port, rmtree_ok, bind_ok)
                 IN  /\ srv'.server = s.server
                     /\ srv'.temp_dir = s.temp_dir
                     /\ srv'.port = s.port
                     /\ srv'.is_running = s.is_running
                     /\ srv'.bound = s.bound
                     /\ srv'.dirs = s.dirs
                     /\ srv'.ret = s.ret]_vars

\* A running server serving v1 was given v2 by update_content.
C35_Witness ==
    /\ srv.log = <<"start_server", "update_content">>
    /\ srv.is_running
    /\ srv.made = 1
    /\ srv.dirs[srv.temp_dir] = <<"<html>v2</html>">>

\* C36: is_running is true only if server, server_thread, temp_dir and port
\* are all set; after stop_server, from any state and also twice in a row,
\* is_running is false, server is None and get_server_status reports
\* is_running False, url None and port None.
C36_ServerStateIsConsistent ==
    /\ srv.is_running =>
           srv.server # 0 /\ srv.server_thread # 0 /\ srv.temp_dir # 0 /\ srv.port # 0
    /\ LastServerCall = "stop_server" =>
           /\ ~srv.is_running
           /\ srv.server = 0
           /\ get_server_status(srv) = [is_running |-> FALSE, url |-> 0, port |-> 0]

\* stop_server was called twice in a row on a server that had been running.
C36_Witness ==
    /\ srv.log = <<"start_server", "stop_server", "stop_server">>
    /\ srv.made = 1
    /\ srv.port # 0
    /\ get_server_status(srv).port = 0

\* C37: no temporary directory is leaked: after a sequence of calls that
\* ends with stop_server, also one in which start_server failed to bind,
\* no directory made by the server remains (shutil.rmtree never having
\* failed).
C37_NoTempDirLeaked ==
    (LastServerCall = "stop_server" /\ ~srv.swallowed) => srv.dirs = << >>

\* The handler run last in the session
LastHandler == IF gui.log = << >> THEN "none" ELSE gui.log[Len(gui.log)]

\* C38: when generate_html_llm reports that the input is not a resume (it
\* returns no document), the AI Direct Build run produces no website: the
\* preview server is not started and the run is not labelled as
\* successfully created.
C38_NotResumeProducesNoWebsite ==
    (LastHandler = "generate" /\ gui.display_html /\ gui.generated_html = << >>) =>
        /\ ~srv.is_running
        /\ gui.temp_server_url = 0
        /\ gui.label # "Custom website created successfully!"

\* C39: after a successful AI Direct Build run the session's website_plan
\* is the plan generate_html_llm emitted on the status sink, and a later
\* apply_user_changes_llm call receives it.
C39_SessionHoldsEmittedPlan ==
    /\ (LastHandler = "generate" /\ gui.label = "Custom website created successfully!"
            /\ gui.generated_html # << >>)
           => gui.website_plan = gui.emitted_plan
    /\ (LastHandler = "change" /\ gui.emitted_plan # << >>)
           => gui.apply_plan = gui.emitted_plan

\* C40: Discard reverts to the previous version: after a change was applied
\* and then discarded, generated_html is the document held just before the
\* change, the preview server serves it (its call having returned), and
\* the pending summary, backup and request are cleared; Accept keeps the
\* modified document and clears the same three fields.
C40_DiscardRevertsAcceptKeeps ==
    [][/\ (gui'.log = Append(gui.log, "discard")) =>
            /\ gui'.generated_html = gui.held
            /\ ~gui'.serve_raised =>
                   /\ srv'.is_running
                   /\ srv'.dirs[srv'.temp_dir] = gui.held
            /\ gui'.pending_change_summary = << >>
            /\ gui'.original_html_backup = << >>
            /\ gui'.change_user_request = << >>
       /\ (gui'.log = Append(gui.log, "accept")) =>
            /\ gui'.generated_html = gui.generated_html
            /\ srv' = srv
            /\ gui'.pending_change_summary = << >>
            /\ gui'.original_html_backup = << >>
            /\ gui'.change_user_request = << >>]_vars

\* A change from v1 to v2 was applied and then discarded.
C40_Witness ==
    /\ gui.log = <<"generate", "change", "discard">>
    /\ gui.held = <<"<!DOCTYPE html>", "<body>v1</body>", "</html>">>
    /\ gui.generated_html = gui.held
    /\ srv.is_running
    /\ srv.dirs[srv.temp_dir] = gui.held
    /\ gui.pending_change_summary = << >>

=============================================================================
